---- MODULE Spec2Model ----
(***************************************************************************)
(* RNK Cyphur: message relay and conversation-state synchronisation.       *)
(*                                                                         *)
(* Every client runs its own DataManager (static maps), UIManager (open    *)
(* windows) and SocketHandler.  Clients talk through the host's socket:    *)
(* SocketHandler.emit hands an event and a recipient list to the           *)
(* transport, which delivers one copy to each listed active user, in any   *)
(* order.  An async function runs up to its first real await in one step;  *)
(* what follows the await is a task of that client that runs later.        *)
(*                                                                         *)
(* Strings that the code transforms (message content) are sequences of     *)
(* one-character strings.  Contents are drawn from an alphabet without     *)
(* '[', '/' and '@', so the URL, dice and link patterns of                 *)
(* parseRichContent never match; escaping and line breaks are modelled.    *)
(***************************************************************************)
EXTENDS Integers, Sequences, FiniteSets, Bags, TLC

(***************************************************************************)
(* Bounds                                                                  *)
(***************************************************************************)
MaxOps == 2
MaxTime == 2
MaxGroups == 1

(***************************************************************************)
(* Roster (game.users): three players and one game master.                 *)
(***************************************************************************)
Players == {"U1", "U2", "U3"}
GMs == {"GM"}
Users == Players \cup GMs
isGM(u) == u \in GMs

\* Array.prototype.sort() on two user ids: UTF-16 order of the ids.
Ord == [u \in Users |-> CASE u = "GM" -> 1 [] u = "U1" -> 2 [] u = "U2" -> 3 [] OTHER -> 4]

GroupIds == {<<"G1">>, <<"G2">>}
GroupId(n) == IF n = 1 THEN <<"G1">> ELSE <<"G2">>
GroupNames == {"crew"}

\* JavaScript `undefined`, and a defined value v, as a value of one type.
Undefined == <<>>
Def(v) == <<v>>

(***************************************************************************)
(* Constants.js                                                            *)
(***************************************************************************)
\* The source values are 500 and 1000; the model keeps two entries.
maxMessageHistory == 2
maxIntercepted == 2
\* The source value is 5000 ms; the model's clock ticks once per timeout.
typingTimeout == 1

DEFAULTS == [maxMessageHistory |-> maxMessageHistory,
             typingTimeout |-> typingTimeout,
             maxIntercepted |-> maxIntercepted]

\* obj.key in JavaScript: undefined when the object has no such property.
Prop(obj, key) == IF key \in DOMAIN obj THEN Def(obj[key]) ELSE Undefined
\* n > v in JavaScript: false when v is undefined (NaN comparison).
JsGreater(n, v) == v # Undefined /\ n > v[1]
\* array.slice(-k): the last k entries.
SliceLast(s, k) == IF Len(s) <= k THEN s ELSE SubSeq(s, Len(s) - k + 1, Len(s))

(***************************************************************************)
(* Utils                                                                   *)
(***************************************************************************)
\* div.textContent = html; div.innerHTML: the HTML serializer escapes &, <, >.
EscapeChar(ch) ==
    CASE ch = "&" -> <<"&", "a", "m", "p", ";">>
      [] ch = "<" -> <<"&", "l", "t", ";">>
      [] ch = ">" -> <<"&", "g", "t", ";">>
      [] OTHER -> <<ch>>

RECURSIVE sanitizeHTML(_)
sanitizeHTML(html) ==
    IF html = <<>> THEN <<>>
    ELSE EscapeChar(Head(html)) \o sanitizeHTML(Tail(html))

RECURSIVE LineBreaks(_)
LineBreaks(s) ==
    IF s = <<>> THEN <<>>
    ELSE (IF Head(s) = "\n" THEN <<"<", "b", "r", ">">> ELSE <<Head(s)>>)
         \o LineBreaks(Tail(s))

parseRichContent(content) ==
    IF content = <<>> THEN content
    ELSE LineBreaks(sanitizeHTML(content))

(***************************************************************************)
(* DataManager: pure parts.  A client's DataManager is a record d.         *)
(***************************************************************************)
\* Variant: the ids are joined in the order given.
getPrivateChatKey_unsorted(userId1, userId2) == <<userId1, userId2>>

getPrivateChatKey(userId1, userId2) ==
    IF Ord[userId1] <= Ord[userId2] THEN <<userId1, userId2>>
    ELSE <<userId2, userId1>>

\* conversationId.split('-')
KeyParts(conversationId) == {conversationId[i] : i \in 1..Len(conversationId)}

Signature(msg) == <<msg.senderId, msg.timestamp, msg.messageContent>>

RECURSIVE SanitizeFrom(_, _, _)
SanitizeFrom(history, seenIds, seenSignatures) ==
    IF history = <<>> THEN <<>>
    ELSE LET msg == Head(history) IN
         IF msg.id \in seenIds \/ Signature(msg) \in seenSignatures
         THEN SanitizeFrom(Tail(history), seenIds, seenSignatures)
         ELSE <<msg>> \o SanitizeFrom(Tail(history), seenIds \cup {msg.id},
                                      seenSignatures \cup {Signature(msg)})

_sanitizeHistory(history) == SanitizeFrom(history, {}, {})

\* The message object as addPrivateMessage / addGroupMessage leave it
\* (they rewrite messageContent in place before storing the object).
Parsed(messageData) ==
    [messageData EXCEPT !.messageContent = parseRichContent(@)]

HasId(history, id) == \E i \in 1..Len(history) : history[i].id = id

\* push, trim to the cap, then _sanitizeHistory
Pushed(history, messageData) ==
    LET cap == Prop(DEFAULTS, "MAX_MESSAGE_HISTORY")
        h1 == IF HasId(history, messageData.id) THEN history
              ELSE LET h == Append(history, messageData) IN
                   IF JsGreater(Len(h), cap) THEN SliceLast(h, cap[1]) ELSE h
    IN _sanitizeHistory(h1)

Put(map, key, val) == [k \in DOMAIN map \cup {key} |-> IF k = key THEN val ELSE map[k]]
Get0(map, key) == IF key \in DOMAIN map THEN map[key] ELSE 0

\* lastActivity, lastRead, editedAt and interceptedAt hold Date.now() stamps that
\* no operation reads back; the model keeps which conversations have a stamp.
updateActivity(d, conversationId, now) ==
    [d EXCEPT !.lastActivity = @ \cup {conversationId}]

addPrivateMessage(d, userId1, userId2, messageData, now) ==
    LET chatKey == getPrivateChatKey(userId1, userId2)
        chat == IF chatKey \in DOMAIN d.privateChats THEN d.privateChats[chatKey]
                ELSE [users |-> <<userId1, userId2>>, history |-> <<>>]
        chat2 == [chat EXCEPT !.history = Pushed(@, Parsed(messageData))]
    IN updateActivity([d EXCEPT !.privateChats = Put(@, chatKey, chat2)], chatKey, now)

addGroupMessage(d, groupId, messageData, now) ==
    IF groupId \notin DOMAIN d.groupChats THEN d
    ELSE updateActivity(
           [d EXCEPT !.groupChats[groupId].history = Pushed(@, Parsed(messageData))],
           groupId, now)

\* The chat a conversation id names, or none.
ChatsOf(d, isGroup) == IF isGroup THEN d.groupChats ELSE d.privateChats

(* Object identity.  addPrivateMessage / addGroupMessage push the message  *)
(* object they are given, and addInterceptedMessage pushes a payload whose  *)
(* messageData is that same object: a record of the interception log whose *)
(* `shared` is TRUE shows the object that sits in the conversation's       *)
(* history, so what editMessage and addReaction write to the one is read   *)
(* from the other.                                                         *)
HeldId(d, conversationId, isGroup, messageId) ==
    /\ conversationId \in DOMAIN ChatsOf(d, isGroup)
    /\ HasId(ChatsOf(d, isGroup)[conversationId].history, messageId)

HeldMessage(d, conversationId, isGroup, messageId) ==
    LET h == ChatsOf(d, isGroup)[conversationId].history IN
    h[CHOOSE j \in 1..Len(h) : h[j].id = messageId /\ \A k \in 1..(j - 1) : h[k].id # messageId]

\* The conversation an interception record belongs to.
RecordIsGroup(rec) == rec.groupId # Undefined
RecordConversation(rec) ==
    IF RecordIsGroup(rec) THEN rec.groupId[1]
    ELSE getPrivateChatKey(rec.senderId, rec.recipientId[1])

\* The record just logged shows the history's object when the operation that
\* logged it pushed the object (d0: the store before the operation).
SharedLast(d0, d1, conversationId, isGroup, messageId) ==
    IF ~HeldId(d0, conversationId, isGroup, messageId)
       /\ HeldId(d1, conversationId, isGroup, messageId)
    THEN [d1 EXCEPT !.interceptedMessages[Len(d1.interceptedMessages)].shared = TRUE]
    ELSE d1

\* A write to the message object in the history, seen through the records
\* that share it.
Mirrored(d, conversationId, isGroup, messageId) ==
    [d EXCEPT !.interceptedMessages =
        [i \in 1..Len(@) |->
            IF /\ @[i].shared
               /\ @[i].messageData.id = messageId
               /\ RecordIsGroup(@[i]) = isGroup
               /\ RecordConversation(@[i]) = conversationId
            THEN [@[i] EXCEPT !.messageData =
                     HeldMessage(d, conversationId, isGroup, messageId)]
            ELSE @[i]]]

\* A record whose object has left the history shares it no longer.
Unshared(d) ==
    IF \A i \in 1..Len(d.interceptedMessages) : ~d.interceptedMessages[i].shared THEN d
    ELSE [d EXCEPT !.interceptedMessages =
             [i \in 1..Len(@) |->
                 IF @[i].shared
                    /\ ~HeldId(d, RecordConversation(@[i]), RecordIsGroup(@[i]),
                               @[i].messageData.id)
                 THEN [@[i] EXCEPT !.shared = FALSE]
                 ELSE @[i]]]

\* The conversations in convs are replaced by new objects.
Detached(d, convs) ==
    [d EXCEPT !.interceptedMessages =
        [i \in 1..Len(@) |->
            IF RecordConversation(@[i]) \in convs THEN [@[i] EXCEPT !.shared = FALSE]
            ELSE @[i]]]

EditedHistory(history, messageId, newContent, now) ==
    [i \in 1..Len(history) |->
        IF i = (CHOOSE j \in 1..Len(history) :
                   /\ history[j].id = messageId
                   /\ \A k \in 1..(j - 1) : history[k].id # messageId)
        THEN [history[i] EXCEPT !.messageContent = parseRichContent(newContent),
                                !.edited = TRUE]
        ELSE history[i]]

editMessage(d, conversationId, messageId, newContent, isGroup, now) ==
    LET chats == ChatsOf(d, isGroup) IN
    IF conversationId \notin DOMAIN chats THEN d
    ELSE IF ~HasId(chats[conversationId].history, messageId) THEN d
    ELSE LET h == EditedHistory(chats[conversationId].history, messageId, newContent, now) IN
         Mirrored(IF isGroup THEN [d EXCEPT !.groupChats[conversationId].history = h]
                  ELSE [d EXCEPT !.privateChats[conversationId].history = h],
                  conversationId, isGroup, messageId)

addInterceptedMessage(d, payload, id, now) ==
    LET rec == [payload EXCEPT !.id = id]
        log == Append(d.interceptedMessages, rec)
    IN [d EXCEPT !.interceptedMessages =
            IF JsGreater(Len(log), Prop(DEFAULTS, "MAX_INTERCEPTED")) THEN Tail(log) ELSE log]

markAsRead(d, conversationId, now) ==
    [d EXCEPT !.lastRead = @ \cup {conversationId},
              !.unreadCounts = Put(@, conversationId, 0)]

\* Variant: a muted conversation is counted like any other.
incrementUnread_ignoresMute(d, conversationId) ==
    [d EXCEPT !.unreadCounts = Put(@, conversationId, Get0(@, conversationId) + 1)]

incrementUnread(d, conversationId) ==
    IF conversationId \in d.mutedConversations THEN d
    ELSE [d EXCEPT !.unreadCounts = Put(@, conversationId, Get0(@, conversationId) + 1)]

getUnreadCount(d, conversationId) == Get0(d.unreadCounts, conversationId)

toggleMuted(d, conversationId) ==
    [d EXCEPT !.mutedConversations =
        IF conversationId \in @ THEN @ \ {conversationId} ELSE @ \cup {conversationId}]

\* typingUsers: conversation -> (user -> time of the last signal).
TypingIn(d, conversationId) ==
    IF conversationId \in DOMAIN d.typingUsers THEN d.typingUsers[conversationId] ELSE <<>>

\* The value setTyping returns (`changed`), and a variant in which every
\* "typing" signal counts as a change.
setTypingReturns_everySignal(d, conversationId, userId, isTyping) ==
    isTyping \/ userId \in DOMAIN TypingIn(d, conversationId)

setTypingReturns(d, conversationId, userId, isTyping) ==
    LET alreadyTyping == userId \in DOMAIN TypingIn(d, conversationId) IN
    IF isTyping THEN ~alreadyTyping ELSE alreadyTyping

setTyping(d, conversationId, userId, isTyping, now) ==
    LET conversationTyping == TypingIn(d, conversationId) IN
    [d EXCEPT !.typingUsers = Put(@, conversationId,
        IF isTyping THEN Put(conversationTyping, userId, now)
        ELSE [u \in DOMAIN conversationTyping \ {userId} |-> conversationTyping[u]])]

\* now - timestamp > DEFAULTS.TYPING_TIMEOUT
IsStale(timestamp, now) == JsGreater(now - timestamp, Prop(DEFAULTS, "TYPING_TIMEOUT"))

\* The users getTypingUsers reports (everyone fresh but the client's own user).
TypingNames(d, conversationId, now, me) ==
    {u \in DOMAIN TypingIn(d, conversationId) :
        ~IsStale(TypingIn(d, conversationId)[u], now) /\ u \in Users /\ u # me}

\* getTypingUsers deletes the stale entries as it reads.
getTypingUsers(d, conversationId, now) ==
    IF conversationId \notin DOMAIN d.typingUsers THEN d
    ELSE [d EXCEPT !.typingUsers[conversationId] =
            [u \in {x \in DOMAIN @ : ~IsStale(@[x], now)} |-> @[u]]]

\* The reply in progress: one message id for the whole client (null when none).
setReplyTo(d, messageId) == [d EXCEPT !._replyToMessage = Def(messageId)]
getReplyTo(d) == d._replyToMessage
clearReplyTo(d) == [d EXCEPT !._replyToMessage = Undefined]

createGroup(d, groupId, name, members, me, now) ==
    [d EXCEPT !.groupChats = Put(@, groupId,
        [id |-> groupId, name |-> name, members |-> members, history |-> <<>>,
         createdAt |-> now, createdBy |-> me])]

\* messages.findIndex(m => m.id === messageId), 1-based
FindIndex(history, messageId) ==
    CHOOSE j \in 1..Len(history) :
        /\ history[j].id = messageId
        /\ \A k \in 1..(j - 1) : history[k].id # messageId

\* messages.splice(index, 1)
Splice(history, index) == SubSeq(history, 1, index - 1) \o SubSeq(history, index + 1, Len(history))

SetHistory(d, conversationId, isGroup, h) ==
    IF isGroup THEN [d EXCEPT !.groupChats[conversationId].history = h]
    ELSE [d EXCEPT !.privateChats[conversationId].history = h]

\* Variant: the index is not checked, and splice(-1, 1) removes the last entry.
deleteMessage_spliceUnchecked(d, conversationId, messageId, isGroup) ==
    LET chats == ChatsOf(d, isGroup) IN
    IF conversationId \notin DOMAIN chats THEN d
    ELSE LET h == chats[conversationId].history IN
         IF ~HasId(h, messageId)
         THEN SetHistory(d, conversationId, isGroup, SubSeq(h, 1, Len(h) - 1))
         ELSE SetHistory(d, conversationId, isGroup, Splice(h, FindIndex(h, messageId)))

\* Variant: a private conversation whose last message is deleted is dropped.
deleteMessage_dropsEmptiedChat(d, conversationId, messageId, isGroup) ==
    LET chats == ChatsOf(d, isGroup) IN
    IF conversationId \notin DOMAIN chats THEN d
    ELSE LET h == chats[conversationId].history IN
         IF ~HasId(h, messageId) THEN d
         ELSE IF Len(h) = 1 /\ ~isGroup
         THEN [d EXCEPT !.privateChats = [k \in DOMAIN @ \ {conversationId} |-> @[k]]]
         ELSE SetHistory(d, conversationId, isGroup, Splice(h, FindIndex(h, messageId)))

deleteMessage(d, conversationId, messageId, isGroup) ==
    LET chats == ChatsOf(d, isGroup) IN
    IF conversationId \notin DOMAIN chats THEN d
    ELSE LET h == chats[conversationId].history IN
         IF ~HasId(h, messageId) THEN d
         ELSE SetHistory(d, conversationId, isGroup, Splice(h, FindIndex(h, messageId)))

\* What editMessage, deleteMessage and addReaction return.
Found(d, conversationId, messageId, isGroup) ==
    /\ conversationId \in DOMAIN ChatsOf(d, isGroup)
    /\ HasId(ChatsOf(d, isGroup)[conversationId].history, messageId)

\* message.reactions: emoji -> the users who reacted, in order; absent until
\* the first reaction.
Reactions(message) == IF "reactions" \in DOMAIN message THEN message.reactions ELSE <<>>

\* Variant: the emoji's entry stays when its last user leaves.
Toggled_keepsEmptyEntry(reactions, emoji, userId) ==
    LET users == IF emoji \in DOMAIN reactions THEN reactions[emoji] ELSE <<>>
        reacted == \E i \in 1..Len(users) : users[i] = userId
    IN IF reacted THEN Put(reactions, emoji, SelectSeq(users, LAMBDA u : u # userId))
       ELSE Put(reactions, emoji, Append(users, userId))

Toggled(reactions, emoji, userId) ==
    LET users == IF emoji \in DOMAIN reactions THEN reactions[emoji] ELSE <<>>
        reacted == \E i \in 1..Len(users) : users[i] = userId
        rest == SelectSeq(users, LAMBDA u : u # userId)
    IN IF reacted
       THEN (IF rest = <<>> THEN [e \in DOMAIN reactions \ {emoji} |-> reactions[e]]
             ELSE Put(reactions, emoji, rest))
       ELSE Put(reactions, emoji, Append(users, userId))

addReaction(d, conversationId, messageId, emoji, userId, isGroup) ==
    IF ~Found(d, conversationId, messageId, isGroup) THEN d
    ELSE LET h == ChatsOf(d, isGroup)[conversationId].history
             index == FindIndex(h, messageId)
             message == h[index]
             reacted == [k \in DOMAIN message \cup {"reactions"} |->
                            IF k = "reactions" THEN Toggled(Reactions(message), emoji, userId)
                            ELSE message[k]]
         IN Mirrored(SetHistory(d, conversationId, isGroup, [h EXCEPT ![index] = reacted]),
                     conversationId, isGroup, messageId)

deleteGroup(d, groupId) ==
    [d EXCEPT !.groupChats = [g \in DOMAIN @ \ {groupId} |-> @[g]]]

\* Object.assign(group, updates)
updateGroup(d, groupId, updates) ==
    IF groupId \notin DOMAIN d.groupChats THEN d
    ELSE [d EXCEPT !.groupChats[groupId] =
             [k \in DOMAIN @ \cup DOMAIN updates |->
                 IF k \in DOMAIN updates THEN updates[k] ELSE @[k]]]

clearConversation(d, conversationId, isGroup) ==
    IF conversationId \notin DOMAIN ChatsOf(d, isGroup) THEN d
    ELSE SetHistory(d, conversationId, isGroup, <<>>)

(***************************************************************************)
(* A client world: every user's DataManager, the conversations whose       *)
(* window is rendered (UIManager.openPrivateChatWindows and                *)
(* openGroupChatWindows), the tasks waiting behind an await, and the       *)
(* events in flight on the socket.                                         *)
(***************************************************************************)
EmptyData ==
    [privateChats |-> <<>>, groupChats |-> <<>>, interceptedMessages |-> <<>>,
     unreadCounts |-> <<>>, lastRead |-> {}, lastActivity |-> {},
     mutedConversations |-> {}, _replyToMessage |-> Undefined,
     typingUsers |-> <<>>, typingWrites |-> 0]

EmptyWorld ==
    [data |-> [u \in Users |-> EmptyData],
     ui |-> [u \in Users |-> {}],
     tasks |-> [u \in Users |-> EmptyBag],
     socket |-> EmptyBag]

One(x) == SetToBag({x})
AddTask(w, me, task) == [w EXCEPT !.tasks[me] = @ (+) One(task)]
SetData(w, me, d) == [w EXCEPT !.data[me] = d]

\* game.users.find(u => u.isGM && u.active)
ActiveGM(gmActive) == IF gmActive THEN Def(CHOOSE g \in GMs : TRUE) ELSE Undefined
IsActive(u, gmActive) == u \in Players \/ gmActive

\* SocketHandler.emit: one copy in flight for every listed user who is
\* connected; the sender gets none.
emit(w, me, type, payload, recipients, gmActive) ==
    [w EXCEPT !.socket = @ (+) SetToBag(
        {[to |-> r, type |-> type, payload |-> payload] :
            r \in {x \in recipients \ {me} : IsActive(x, gmActive)}})]

(***************************************************************************)
(* UIManager                                                               *)
(***************************************************************************)
RenderTask(conversationId) == [kind |-> "render", conv |-> conversationId]

\* existingWindow?.rendered => existingWindow.render(false)
updateChatWindow(w, me, conversationId) ==
    IF conversationId \in w.ui[me] THEN AddTask(w, me, RenderTask(conversationId)) ELSE w

openChatFor(w, me, userId) ==
    LET chatKey == getPrivateChatKey(me, userId) IN
    IF chatKey \in w.ui[me] THEN AddTask(w, me, RenderTask(chatKey))
    ELSE LET d == w.data[me]
             d1 == IF chatKey \in DOMAIN d.privateChats THEN d
                   ELSE [d EXCEPT !.privateChats =
                           Put(@, chatKey, [users |-> <<me, userId>>, history |-> <<>>])]
         IN AddTask(SetData(w, me, d1), me, RenderTask(chatKey))

openGroupChat(w, me, groupId) ==
    LET d == w.data[me] IN
    IF groupId \notin DOMAIN d.groupChats THEN w
    ELSE IF me \notin d.groupChats[groupId].members /\ ~isGM(me) THEN w
    ELSE AddTask(w, me, RenderTask(groupId))

\* CyphurWindow._prepareContext, run by every render of a chat window.
RenderWindow(w, me, conversationId, now) ==
    [w EXCEPT !.data[me] = getTypingUsers(markAsRead(@, conversationId, now),
                                          conversationId, now),
              !.ui[me] = @ \cup {conversationId}]

\* The private window a handler refreshes: parts.find(id => id !== me).
OtherParts(conversationId, me) == KeyParts(conversationId) \ {me}
FirstOther(conversationId, me) ==
    CHOOSE p \in OtherParts(conversationId, me) :
        \A q \in OtherParts(conversationId, me) : Ord[p] <= Ord[q]

RefreshConversation(w, me, conversationId, isGroup) ==
    IF isGroup THEN updateChatWindow(w, me, conversationId)
    ELSE IF OtherParts(conversationId, me) = {} THEN w
    ELSE updateChatWindow(w, me, getPrivateChatKey(me, FirstOther(conversationId, me)))

closeChatWindow(w, me, id) == [w EXCEPT !.ui[me] = @ \ {id}]

\* UIManager.updateTypingIndicator: the open window reads getTypingUsers and
\* rewrites its typing line (typingWrites counts the rewrites).
updateTypingIndicator(w, me, conversationId, now) ==
    IF conversationId \notin w.ui[me] THEN w
    ELSE SetData(w, me, [getTypingUsers(w.data[me], conversationId, now)
                            EXCEPT !.typingWrites = @ + 1])

(***************************************************************************)
(* SocketHandler: senders                                                  *)
(***************************************************************************)
\* Variant: the relay copy is addressed to the recipient as well as the observer.
sendPrivateMessage_relayToRecipient(w, me, recipientId, messageData, gmActive) ==
    LET w1 == emit(w, me, "privateMessage",
                   [recipientId |-> recipientId, message |-> messageData],
                   {recipientId}, gmActive)
        gm == ActiveGM(gmActive)
    IN IF ~isGM(me) /\ recipientId \in Users /\ ~isGM(recipientId) /\ gm # Undefined
       THEN emit(w1, me, "privateMessage",
                 [recipientId |-> gm[1], message |-> messageData, isRelay |-> TRUE,
                  originalSenderId |-> me, originalRecipientId |-> recipientId],
                 {gm[1], recipientId}, gmActive)
       ELSE w1

\* Variant: the recipient's role is not checked before relaying.
sendPrivateMessage_anyRecipient(w, me, recipientId, messageData, gmActive) ==
    LET w1 == emit(w, me, "privateMessage",
                   [recipientId |-> recipientId, message |-> messageData],
                   {recipientId}, gmActive)
        gm == ActiveGM(gmActive)
    IN IF ~isGM(me) /\ recipientId \in Users /\ gm # Undefined
       THEN emit(w1, me, "privateMessage",
                 [recipientId |-> gm[1], message |-> messageData, isRelay |-> TRUE,
                  originalSenderId |-> me, originalRecipientId |-> recipientId],
                 {gm[1]}, gmActive)
       ELSE w1

sendPrivateMessage(w, me, recipientId, messageData, gmActive) ==
    LET w1 == emit(w, me, "privateMessage",
                   [recipientId |-> recipientId, message |-> messageData],
                   {recipientId}, gmActive)
        gm == ActiveGM(gmActive)
    IN IF ~isGM(me) /\ recipientId \in Users /\ ~isGM(recipientId) /\ gm # Undefined
       THEN emit(w1, me, "privateMessage",
                 [recipientId |-> gm[1], message |-> messageData, isRelay |-> TRUE,
                  originalSenderId |-> me, originalRecipientId |-> recipientId],
                 {gm[1]}, gmActive)
       ELSE w1

sendTypingIndicator(w, me, conversationId, isTyping, isGroup, gmActive) ==
    LET groups == w.data[me].groupChats
        recipients == IF isGroup
                      THEN (IF conversationId \in DOMAIN groups
                            THEN groups[conversationId].members \ {me} ELSE {})
                      ELSE OtherParts(conversationId, me)
    IN IF recipients = {} THEN w
       ELSE emit(w, me, "typing",
                 [conversationId |-> conversationId, userId |-> me, isTyping |-> isTyping,
                  isGroup |-> isGroup], recipients, gmActive)

sendGroupMessage(w, me, groupId, messageData, gmActive) ==
    LET groups == w.data[me].groupChats IN
    IF groupId \notin DOMAIN groups THEN w
    ELSE emit(w, me, "groupMessage", [groupId |-> groupId, message |-> messageData],
              groups[groupId].members \ {me}, gmActive)

broadcastGroupCreate(w, me, group, gmActive) ==
    emit(w, me, "groupCreate", [group |-> group], group.members \ {me}, gmActive)

\* Recipients of an edit, delete or reaction.
OtherParticipants(w, me, conversationId, isGroup) ==
    IF isGroup
    THEN (IF conversationId \in DOMAIN w.data[me].groupChats
          THEN w.data[me].groupChats[conversationId].members \ {me} ELSE {})
    ELSE KeyParts(conversationId) \ {me}

broadcastEditMessage(w, me, conversationId, messageId, newContent, isGroup, gmActive) ==
    emit(w, me, "editMessage",
         [conversationId |-> conversationId, messageId |-> messageId,
          newContent |-> newContent, isGroup |-> isGroup],
         OtherParticipants(w, me, conversationId, isGroup), gmActive)

broadcastDeleteMessage(w, me, conversationId, messageId, isGroup, gmActive) ==
    emit(w, me, "deleteMessage",
         [conversationId |-> conversationId, messageId |-> messageId, isGroup |-> isGroup],
         OtherParticipants(w, me, conversationId, isGroup), gmActive)

broadcastReaction(w, me, conversationId, messageId, emoji, isGroup, gmActive) ==
    emit(w, me, "addReaction",
         [conversationId |-> conversationId, messageId |-> messageId, emoji |-> emoji,
          userId |-> me, isGroup |-> isGroup],
         OtherParticipants(w, me, conversationId, isGroup), gmActive)

broadcastGroupUpdate(w, me, groupId, updates, gmActive) ==
    IF groupId \notin DOMAIN w.data[me].groupChats THEN w
    ELSE emit(w, me, "groupUpdate", [groupId |-> groupId, updates |-> updates],
              w.data[me].groupChats[groupId].members \ {me}, gmActive)

broadcastGroupDelete(w, me, groupId, members, gmActive) ==
    emit(w, me, "groupDelete", [groupId |-> groupId], members \ {me}, gmActive)

requestMessageSync(w, me, gmActive) ==
    IF isGM(me) THEN w
    ELSE IF ActiveGM(gmActive) = Undefined THEN w
    ELSE emit(w, me, "SYNC_REQUEST", [userId |-> me, type |-> "all"],
              {ActiveGM(gmActive)[1]}, gmActive)

\* No handler, hook or window of the module calls sendSyncToUser.
sendSyncToUser(w, me, userId, gmActive) ==
    IF ~isGM(me) THEN w
    ELSE LET d == w.data[me]
             privateChats ==
                 [k \in {c \in DOMAIN d.privateChats :
                            \E i \in 1..Len(d.privateChats[c].users) :
                                d.privateChats[c].users[i] = userId}
                    |-> d.privateChats[k]]
             groups == {d.groupChats[g] :
                           g \in {x \in DOMAIN d.groupChats : userId \in d.groupChats[x].members}}
             w1 == emit(w, me, "privateSync", [chats |-> privateChats], {userId}, gmActive)
         IN emit(w1, me, "groupSync", [groups |-> groups], {userId}, gmActive)

(***************************************************************************)
(* SocketHandler: receivers.  rec is the id addInterceptedMessage draws.   *)
(***************************************************************************)
MonitorPayload(senderId, recipientId, groupId, groupName, messageData) ==
    [id |-> 0, senderId |-> senderId, recipientId |-> recipientId,
     groupId |-> groupId, groupName |-> groupName, messageData |-> messageData,
     shared |-> FALSE]

\* What _handlePrivateMessage does on a GM client after `await savePrivateChats()`.
\* `pushed`: the handler pushed the message object; the record shows it as it
\* is now if it is still in the history.
PrivateTail(w, me, message, recipientId, pushed, now, rec) ==
    LET chatKey == getPrivateChatKey(message.senderId, recipientId)
        held == pushed /\ HeldId(w.data[me], chatKey, FALSE, message.id)
        shown == IF held THEN HeldMessage(w.data[me], chatKey, FALSE, message.id) ELSE message
        d1 == addInterceptedMessage(w.data[me],
                 [MonitorPayload(message.senderId, Def(recipientId), Undefined, Undefined, shown)
                     EXCEPT !.shared = held],
                 rec, now)
        d2 == incrementUnread(d1, chatKey)
    IN openChatFor(SetData(w, me, d2), me, message.senderId)

\* Variant: the relay branch logs the addressee of the relay event (the observer)
\* instead of the original recipient.
_handlePrivateMessage_logsRelayAddressee(w, me, payload, now, rec) ==
    LET message == payload.message
        isRelay == Prop(payload, "isRelay") = Def(TRUE)
        d == w.data[me]
    IN IF payload.recipientId # me THEN w
       ELSE IF message.senderId = me THEN w
       ELSE IF isRelay /\ isGM(me)
       THEN LET d1 == addInterceptedMessage(d,
                         MonitorPayload(payload.originalSenderId,
                                        Def(payload.recipientId),
                                        Undefined, Undefined, Parsed(message)),
                         rec, now)
            IN SetData(w, me, SharedLast(d,
                   addPrivateMessage(d1, payload.originalSenderId,
                                     payload.originalRecipientId, message, now),
                   getPrivateChatKey(payload.originalSenderId, payload.originalRecipientId),
                   FALSE, message.id))
       ELSE IF ~isRelay
       THEN LET d1 == addPrivateMessage(d, message.senderId, payload.recipientId, message, now)
                w1 == SetData(w, me, d1)
            IN IF isGM(me)
               THEN AddTask(w1, me, [kind |-> "privateTail", message |-> Parsed(message),
                                     recipientId |-> payload.recipientId,
                                     pushed |-> ~HeldId(d, getPrivateChatKey(
                                                      message.senderId, payload.recipientId),
                                                      FALSE, message.id)
                                                /\ HeldId(d1, getPrivateChatKey(
                                                      message.senderId, payload.recipientId),
                                                      FALSE, message.id)])
               ELSE LET chatKey == getPrivateChatKey(message.senderId, payload.recipientId)
                    IN openChatFor(SetData(w1, me, incrementUnread(d1, chatKey)),
                                   me, message.senderId)
       ELSE w

\* Variant: the relay branch counts the relayed message as unread.
_handlePrivateMessage_relayCountsUnread(w, me, payload, now, rec) ==
    LET message == payload.message
        isRelay == Prop(payload, "isRelay") = Def(TRUE)
        d == w.data[me]
    IN IF payload.recipientId # me THEN w
       ELSE IF message.senderId = me THEN w
       ELSE IF isRelay /\ isGM(me)
       THEN LET d1 == addInterceptedMessage(d,
                         MonitorPayload(payload.originalSenderId,
                                        Def(payload.originalRecipientId),
                                        Undefined, Undefined, Parsed(message)),
                         rec, now)
                d2 == SharedLast(d,
                         addPrivateMessage(d1, payload.originalSenderId,
                                           payload.originalRecipientId, message, now),
                         getPrivateChatKey(payload.originalSenderId,
                                           payload.originalRecipientId),
                         FALSE, message.id)
            IN SetData(w, me, incrementUnread(d2,
                   getPrivateChatKey(payload.originalSenderId, payload.originalRecipientId)))
       ELSE IF ~isRelay
       THEN LET d1 == addPrivateMessage(d, message.senderId, payload.recipientId, message, now)
                w1 == SetData(w, me, d1)
            IN IF isGM(me)
               THEN AddTask(w1, me, [kind |-> "privateTail", message |-> Parsed(message),
                                     recipientId |-> payload.recipientId,
                                     pushed |-> ~HeldId(d, getPrivateChatKey(
                                                      message.senderId, payload.recipientId),
                                                      FALSE, message.id)
                                                /\ HeldId(d1, getPrivateChatKey(
                                                      message.senderId, payload.recipientId),
                                                      FALSE, message.id)])
               ELSE LET chatKey == getPrivateChatKey(message.senderId, payload.recipientId)
                    IN openChatFor(SetData(w1, me, incrementUnread(d1, chatKey)),
                                   me, message.senderId)
       ELSE w

_handlePrivateMessage(w, me, payload, now, rec) ==
    LET message == payload.message
        isRelay == Prop(payload, "isRelay") = Def(TRUE)
        d == w.data[me]
    IN IF payload.recipientId # me THEN w
       ELSE IF message.senderId = me THEN w
       ELSE IF isRelay /\ isGM(me)
       THEN LET d1 == addInterceptedMessage(d,
                         MonitorPayload(payload.originalSenderId,
                                        Def(payload.originalRecipientId),
                                        Undefined, Undefined, Parsed(message)),
                         rec, now)
            IN SetData(w, me, SharedLast(d,
                   addPrivateMessage(d1, payload.originalSenderId,
                                     payload.originalRecipientId, message, now),
                   getPrivateChatKey(payload.originalSenderId, payload.originalRecipientId),
                   FALSE, message.id))
       ELSE IF ~isRelay
       THEN LET d1 == addPrivateMessage(d, message.senderId, payload.recipientId, message, now)
                w1 == SetData(w, me, d1)
            IN IF isGM(me)
               THEN AddTask(w1, me, [kind |-> "privateTail", message |-> Parsed(message),
                                     recipientId |-> payload.recipientId,
                                     pushed |-> ~HeldId(d, getPrivateChatKey(
                                                      message.senderId, payload.recipientId),
                                                      FALSE, message.id)
                                                /\ HeldId(d1, getPrivateChatKey(
                                                      message.senderId, payload.recipientId),
                                                      FALSE, message.id)])
               ELSE LET chatKey == getPrivateChatKey(message.senderId, payload.recipientId)
                    IN openChatFor(SetData(w1, me, incrementUnread(d1, chatKey)),
                                   me, message.senderId)
       ELSE w

\* What _handleGroupMessage does on a GM member after `await saveGroupChats()`.
GroupTail(w, me, groupId, groupName, message, pushed, now, rec) ==
    LET w1 == openGroupChat(SetData(w, me, incrementUnread(w.data[me], groupId)), me, groupId)
        held == pushed /\ HeldId(w1.data[me], groupId, TRUE, message.id)
        shown == IF held THEN HeldMessage(w1.data[me], groupId, TRUE, message.id) ELSE message
    IN SetData(w1, me, addInterceptedMessage(w1.data[me],
           [MonitorPayload(message.senderId, Undefined, Def(groupId), Def(groupName), shown)
               EXCEPT !.shared = held],
           rec, now))

_handleGroupMessage(w, me, payload, now, rec) ==
    LET groupId == payload.groupId
        message == payload.message
        d == w.data[me]
        known == groupId \in DOMAIN d.groupChats
        incoming == message.senderId # me
    IN IF known /\ me \in d.groupChats[groupId].members /\ incoming
       THEN LET w1 == SetData(w, me, addGroupMessage(d, groupId, message, now))
            IN IF isGM(me)
               THEN AddTask(w1, me, [kind |-> "groupTail", groupId |-> groupId,
                                     groupName |-> d.groupChats[groupId].name,
                                     message |-> Parsed(message),
                                     pushed |-> ~HeldId(d, groupId, TRUE, message.id)
                                                /\ HeldId(w1.data[me], groupId, TRUE,
                                                          message.id)])
               ELSE openGroupChat(SetData(w1, me, incrementUnread(w1.data[me], groupId)),
                                  me, groupId)
       ELSE IF isGM(me) /\ incoming
       THEN SetData(w, me, addInterceptedMessage(d,
               MonitorPayload(message.senderId, Undefined, Def(groupId),
                              Def(IF known THEN d.groupChats[groupId].name
                                  ELSE "Unknown Channel"), message),
               rec, now))
       ELSE w

\* On a GM client the refresh follows `await save...()`; nothing but the refresh
\* is left after it, and the refresh only queues a render.
_handleEditMessage(w, me, payload, now) ==
    RefreshConversation(
        SetData(w, me, editMessage(w.data[me], payload.conversationId, payload.messageId,
                                   payload.newContent, payload.isGroup, now)),
        me, payload.conversationId, payload.isGroup)

_handleGroupCreate(w, me, payload) ==
    IF me \in payload.group.members
    THEN [w EXCEPT !.data[me] = Detached([@ EXCEPT !.groupChats =
                                              Put(@, payload.group.id, payload.group)],
                                         {payload.group.id})]
    ELSE w

\* As in _handleEditMessage, only the refresh follows the GM's `await save...()`.
_handleDeleteMessage(w, me, payload) ==
    RefreshConversation(
        SetData(w, me, deleteMessage(w.data[me], payload.conversationId, payload.messageId,
                                     payload.isGroup)),
        me, payload.conversationId, payload.isGroup)

_handleAddReaction(w, me, payload) ==
    RefreshConversation(
        SetData(w, me, addReaction(w.data[me], payload.conversationId, payload.messageId,
                                   payload.emoji, payload.userId, payload.isGroup)),
        me, payload.conversationId, payload.isGroup)

_handleGroupUpdate(w, me, payload) ==
    IF payload.groupId \notin DOMAIN w.data[me].groupChats THEN w
    ELSE updateChatWindow(
             SetData(w, me, updateGroup(w.data[me], payload.groupId, payload.updates)),
             me, payload.groupId)

_handleGroupDelete(w, me, payload) ==
    closeChatWindow(SetData(w, me, deleteGroup(w.data[me], payload.groupId)),
                    me, payload.groupId)

\* payload.groups is an array of group records with distinct ids.
_handleGroupSync(w, me, payload) ==
    LET mine == {g \in payload.groups : me \in g.members} IN
    [w EXCEPT !.data[me] = Detached([@ EXCEPT !.groupChats =
        [k \in DOMAIN @ \cup {g.id : g \in mine} |->
            IF \E g \in mine : g.id = k THEN CHOOSE g \in mine : g.id = k ELSE @[k]]],
        {g.id : g \in mine})]

\* Variant: every conversation of the snapshot is stored.
_handlePrivateSync_unfiltered(w, me, payload) ==
    [w EXCEPT !.data[me] = Detached([@ EXCEPT !.privateChats =
        [k \in DOMAIN @ \cup DOMAIN payload.chats |->
            IF k \in DOMAIN payload.chats THEN payload.chats[k] ELSE @[k]]],
        DOMAIN payload.chats)]

_handlePrivateSync(w, me, payload) ==
    LET mine == {k \in DOMAIN payload.chats :
                    \E i \in 1..Len(payload.chats[k].users) : payload.chats[k].users[i] = me} IN
    [w EXCEPT !.data[me] = Detached([@ EXCEPT !.privateChats =
        [k \in DOMAIN @ \cup mine |-> IF k \in mine THEN payload.chats[k] ELSE @[k]]],
        mine)]

_handleTyping(w, me, payload, now) ==
    LET conversationId == payload.conversationId
        changed == setTypingReturns(w.data[me], conversationId, payload.userId, payload.isTyping)
        w1 == SetData(w, me, setTyping(w.data[me], conversationId, payload.userId,
                                       payload.isTyping, now))
    IN IF ~changed THEN w1
       ELSE IF payload.isGroup THEN updateTypingIndicator(w1, me, conversationId, now)
       ELSE IF OtherParts(conversationId, me) = {} THEN w1
       ELSE updateTypingIndicator(w1, me,
                getPrivateChatKey(me, FirstOther(conversationId, me)), now)

\* An event type with no case (such as "SYNC_REQUEST") is logged as unknown
\* and dropped.
_onSocketMessage(w, me, data, now, rec) ==
    CASE data.type = "privateMessage" -> _handlePrivateMessage(w, me, data.payload, now, rec)
      [] data.type = "groupMessage" -> _handleGroupMessage(w, me, data.payload, now, rec)
      [] data.type = "editMessage" -> _handleEditMessage(w, me, data.payload, now)
      [] data.type = "deleteMessage" -> _handleDeleteMessage(w, me, data.payload)
      [] data.type = "addReaction" -> _handleAddReaction(w, me, data.payload)
      [] data.type = "typing" -> _handleTyping(w, me, data.payload, now)
      [] data.type = "groupCreate" -> _handleGroupCreate(w, me, data.payload)
      [] data.type = "groupUpdate" -> _handleGroupUpdate(w, me, data.payload)
      [] data.type = "groupDelete" -> _handleGroupDelete(w, me, data.payload)
      [] data.type = "groupSync" -> _handleGroupSync(w, me, data.payload)
      [] data.type = "privateSync" -> _handlePrivateSync(w, me, data.payload)
      [] OTHER -> w

\* The transport hands one event in flight to its addressee.
Delivered(w, event, now, rec) ==
    _onSocketMessage([w EXCEPT !.socket = @ (-) One(event)], event.to,
                     [type |-> event.type, payload |-> event.payload], now, rec)

(***************************************************************************)
(* RNKCyphur: the operations a user (or the module API) starts.            *)
(***************************************************************************)
NewMessage(me, messageContent, now, id) ==
    [id |-> id, senderId |-> me, messageContent |-> messageContent, timestamp |-> now,
     edited |-> FALSE]

\* const replyToId = DataManager.getReplyTo();
\* if (replyToId) { messageData.replyToId = replyToId; DataManager.clearReplyTo(); }
Replying(d, messageData) ==
    IF getReplyTo(d) = Undefined THEN messageData
    ELSE [k \in DOMAIN messageData \cup {"replyToId"} |->
             IF k = "replyToId" THEN getReplyTo(d)[1] ELSE messageData[k]]

\* Variant: a sending game master does not log its own message.
sendMessage_noMonitor(w, me, recipientId, messageContent, now, id, rec, gmActive) ==
    LET messageData == NewMessage(me, messageContent, now, id)
        d1 == addPrivateMessage(w.data[me], me, recipientId, messageData, now)
        w1 == sendPrivateMessage(SetData(w, me, d1), me, recipientId,
                                 Parsed(messageData), gmActive)
    IN updateChatWindow(w1, me, getPrivateChatKey(me, recipientId))

sendMessage(w, me, recipientId, messageContent, now, id, rec, gmActive) ==
    LET messageData == Replying(w.data[me], NewMessage(me, messageContent, now, id))
        d1 == addPrivateMessage(clearReplyTo(w.data[me]), me, recipientId, messageData, now)
        w1 == sendPrivateMessage(SetData(w, me, d1), me, recipientId,
                                 Parsed(messageData), gmActive)
        w2 == IF isGM(me)
              THEN SetData(w1, me, SharedLast(w.data[me],
                      addInterceptedMessage(w1.data[me],
                          MonitorPayload(me, Def(recipientId), Undefined, Undefined,
                                         Parsed(messageData)), rec, now),
                      getPrivateChatKey(me, recipientId), FALSE, id))
              ELSE w1
    IN updateChatWindow(w2, me, getPrivateChatKey(me, recipientId))

RNK_sendGroupMessage(w, me, groupId, messageContent, now, id, rec, gmActive) ==
    IF groupId \notin DOMAIN w.data[me].groupChats THEN w
    ELSE LET group == w.data[me].groupChats[groupId]
             messageData == Replying(w.data[me], NewMessage(me, messageContent, now, id))
             d1 == addGroupMessage(clearReplyTo(w.data[me]), groupId, messageData, now)
             w1 == sendGroupMessage(SetData(w, me, d1), me, groupId,
                                    Parsed(messageData), gmActive)
             w2 == IF isGM(me)
                   THEN SetData(w1, me, SharedLast(w.data[me],
                           addInterceptedMessage(w1.data[me],
                               MonitorPayload(me, Undefined, Def(groupId), Def(group.name),
                                              Parsed(messageData)), rec, now),
                           groupId, TRUE, id))
                   ELSE w1
         IN updateChatWindow(w2, me, groupId)

RNK_createGroup(w, me, name, members, groupId, now, gmActive) ==
    LET allMembers == {me} \cup members
        w1 == SetData(w, me, createGroup(w.data[me], groupId, name, allMembers, me, now))
    IN IF isGM(me)
       THEN AddTask(w1, me, [kind |-> "createTail", group |-> w1.data[me].groupChats[groupId]])
       ELSE broadcastGroupCreate(w1, me, w1.data[me].groupChats[groupId], gmActive)

\* broadcast and window refresh of RNKCyphur.editMessage
EditTail(w, me, conversationId, messageId, newContent, isGroup, gmActive) ==
    RefreshConversation(
        broadcastEditMessage(w, me, conversationId, messageId, newContent, isGroup, gmActive),
        me, conversationId, isGroup)

RNK_editMessage(w, me, conversationId, messageId, newContent, isGroup, now, gmActive) ==
    LET w1 == SetData(w, me, editMessage(w.data[me], conversationId, messageId,
                                         newContent, isGroup, now))
    IN IF isGM(me)
       THEN AddTask(w1, me, [kind |-> "editTail", conversationId |-> conversationId,
                             messageId |-> messageId, newContent |-> newContent,
                             isGroup |-> isGroup])
       ELSE EditTail(w1, me, conversationId, messageId, newContent, isGroup, gmActive)

\* broadcast and window refresh of RNKCyphur.deleteMessage
DeleteTail(w, me, conversationId, messageId, isGroup, gmActive) ==
    RefreshConversation(
        broadcastDeleteMessage(w, me, conversationId, messageId, isGroup, gmActive),
        me, conversationId, isGroup)

RNK_deleteMessage(w, me, conversationId, messageId, isGroup, gmActive) ==
    LET w1 == SetData(w, me, deleteMessage(w.data[me], conversationId, messageId, isGroup))
    IN IF isGM(me)
       THEN AddTask(w1, me, [kind |-> "deleteTail", conversationId |-> conversationId,
                             messageId |-> messageId, isGroup |-> isGroup])
       ELSE DeleteTail(w1, me, conversationId, messageId, isGroup, gmActive)

\* broadcast and window refresh of RNKCyphur.toggleReaction
ReactionTail(w, me, conversationId, messageId, emoji, isGroup, gmActive) ==
    RefreshConversation(
        broadcastReaction(w, me, conversationId, messageId, emoji, isGroup, gmActive),
        me, conversationId, isGroup)

toggleReaction(w, me, conversationId, messageId, emoji, isGroup, gmActive) ==
    LET w1 == SetData(w, me, addReaction(w.data[me], conversationId, messageId, emoji,
                                         me, isGroup))
    IN IF isGM(me)
       THEN AddTask(w1, me, [kind |-> "reactionTail", conversationId |-> conversationId,
                             messageId |-> messageId, emoji |-> emoji, isGroup |-> isGroup])
       ELSE ReactionTail(w1, me, conversationId, messageId, emoji, isGroup, gmActive)

\* broadcast and window close of RNKCyphur.deleteGroup, after `await saveGroupChats()`
DeleteGroupTail(w, me, groupId, members, gmActive) ==
    closeChatWindow(broadcastGroupDelete(w, me, groupId, members, gmActive), me, groupId)

\* Variant: the caller's role is not checked.
RNK_deleteGroup_anyCaller(w, me, groupId, gmActive) ==
    IF groupId \notin DOMAIN w.data[me].groupChats THEN w
    ELSE LET members == w.data[me].groupChats[groupId].members
             w1 == SetData(w, me, deleteGroup(w.data[me], groupId))
         IN IF isGM(me)
            THEN AddTask(w1, me, [kind |-> "deleteGroupTail", groupId |-> groupId,
                                  members |-> members])
            ELSE DeleteGroupTail(w1, me, groupId, members, gmActive)

RNK_deleteGroup(w, me, groupId, gmActive) ==
    IF ~isGM(me) THEN w
    ELSE IF groupId \notin DOMAIN w.data[me].groupChats THEN w
    ELSE LET members == w.data[me].groupChats[groupId].members
         IN AddTask(SetData(w, me, deleteGroup(w.data[me], groupId)), me,
                    [kind |-> "deleteGroupTail", groupId |-> groupId, members |-> members])

(***************************************************************************)
(* GMModWindow and GroupManagerWindow: the moderation actions, taken once  *)
(* their dialog is confirmed.                                              *)
(***************************************************************************)
_onClearConversation(w, me, convId, isGroup) ==
    SetData(w, me, clearConversation(w.data[me], convId, isGroup))

_onDeleteConversation(w, me, convId, isGroup, gmActive) ==
    IF isGroup THEN RNK_deleteGroup(w, me, convId, gmActive)
    ELSE [w EXCEPT !.data[me].privateChats = [k \in DOMAIN @ \ {convId} |-> @[k]]]

\* result: the name and the ticked members of the edit dialog.
_onEditGroup(w, me, groupId, result, gmActive) ==
    IF groupId \notin DOMAIN w.data[me].groupChats THEN w
    ELSE IF result.name = "" THEN w
    ELSE LET updates == [name |-> result.name, members |-> result.members]
             w1 == SetData(w, me, updateGroup(w.data[me], groupId, updates))
         IN IF isGM(me)
            THEN AddTask(w1, me, [kind |-> "updateTail", groupId |-> groupId,
                                  updates |-> updates])
            ELSE broadcastGroupUpdate(w1, me, groupId, updates, gmActive)

\* A task of client `me` resumes.
Resumed(w, me, task, now, rec, gmActive) ==
    LET w0 == [w EXCEPT !.tasks[me] = @ (-) One(task)] IN
    CASE task.kind = "render" -> RenderWindow(w0, me, task.conv, now)
      [] task.kind = "privateTail" ->
            PrivateTail(w0, me, task.message, task.recipientId, task.pushed, now, rec)
      [] task.kind = "groupTail" ->
            GroupTail(w0, me, task.groupId, task.groupName, task.message, task.pushed,
                      now, rec)
      [] task.kind = "createTail" ->
            broadcastGroupCreate(w0, me,
                IF task.group.id \in DOMAIN w0.data[me].groupChats
                THEN w0.data[me].groupChats[task.group.id] ELSE task.group, gmActive)
      [] task.kind = "editTail" ->
            EditTail(w0, me, task.conversationId, task.messageId, task.newContent,
                     task.isGroup, gmActive)
      [] task.kind = "deleteTail" ->
            DeleteTail(w0, me, task.conversationId, task.messageId, task.isGroup, gmActive)
      [] task.kind = "reactionTail" ->
            ReactionTail(w0, me, task.conversationId, task.messageId, task.emoji,
                         task.isGroup, gmActive)
      [] task.kind = "deleteGroupTail" ->
            DeleteGroupTail(w0, me, task.groupId, task.members, gmActive)
      [] task.kind = "updateTail" ->
            broadcastGroupUpdate(w0, me, task.groupId, task.updates, gmActive)
      [] OTHER -> w0

(***************************************************************************)
(* State                                                                   *)
(***************************************************************************)
\* last: the call made by the latest step of a direct caller (a DataManager
\* call, or RNKCyphur.deleteGroup).
VARIABLES data, ui, tasks, socket, gmActive, clock, ids, ops, twin, last, session
vars == <<data, ui, tasks, socket, gmActive, clock, ids, ops, twin, last, session>>

World == [data |-> data, ui |-> ui, tasks |-> tasks, socket |-> socket]
Becomes(w) ==
    /\ data' = [u \in Users |-> Unshared(w.data[u])]
    /\ ui' = w.ui
    /\ tasks' = w.tasks
    /\ socket' = w.socket

\* A client session once the `ready` hook has run: RNKCyphur.initialize has been
\* called once (one transport listener registered by SocketHandler.initialize)
\* and the lazy loader of main.js has not run yet.
Started == [u \in Users |-> [_cyphurInitialized |-> FALSE, listeners |-> 1]]

Hello == <<"h", "e", "l", "l", "o">>
Contents == {Hello, <<"a", "&", "b">>}

Init ==
    /\ data = EmptyWorld.data
    /\ ui = EmptyWorld.ui
    /\ tasks = EmptyWorld.tasks
    /\ socket = EmptyWorld.socket
    /\ gmActive \in BOOLEAN
    /\ clock = 1
    /\ ids = [msg |-> 1, rec |-> 1, group |-> 1]
    /\ ops = 0
    /\ twin = EmptyWorld
    /\ last = [op |-> "none"]
    /\ session = Started

\* Date.now() read by an operation: any time from the latest reading on.
Now == clock..MaxTime

UserStep(now) == ops' = ops + 1 /\ clock' = now /\ UNCHANGED <<gmActive, twin, last, session>>

SendMessage(me, recipientId, messageContent) ==
    /\ ops < MaxOps
    /\ IsActive(me, gmActive)
    /\ recipientId # me
    /\ \E now \in Now :
          /\ Becomes(sendMessage(World, me, recipientId, messageContent, now,
                                 ids.msg, ids.rec, gmActive))
          /\ UserStep(now)
    /\ ids' = [ids EXCEPT !.msg = @ + 1, !.rec = IF isGM(me) THEN @ + 1 ELSE @]

SendGroupMessage(me, groupId, messageContent) ==
    /\ ops < MaxOps
    /\ IsActive(me, gmActive)
    /\ groupId \in DOMAIN data[me].groupChats
    /\ \E now \in Now :
          /\ Becomes(RNK_sendGroupMessage(World, me, groupId, messageContent, now,
                                          ids.msg, ids.rec, gmActive))
          /\ UserStep(now)
    /\ ids' = [ids EXCEPT !.msg = @ + 1, !.rec = IF isGM(me) THEN @ + 1 ELSE @]

CreateGroup(me, name, members) ==
    /\ ops < MaxOps
    /\ ids.group <= MaxGroups
    /\ IsActive(me, gmActive)
    /\ \E now \in Now :
          /\ Becomes(RNK_createGroup(World, me, name, members, GroupId(ids.group),
                                     now, gmActive))
          /\ UserStep(now)
    /\ ids' = [ids EXCEPT !.group = @ + 1]

EditMessage(me, conversationId, messageId, newContent, isGroup) ==
    /\ ops < MaxOps
    /\ IsActive(me, gmActive)
    /\ conversationId \in DOMAIN ChatsOf(data[me], isGroup)
    /\ HasId(ChatsOf(data[me], isGroup)[conversationId].history, messageId)
    /\ \E now \in Now :
          /\ Becomes(RNK_editMessage(World, me, conversationId, messageId, newContent,
                                     isGroup, now, gmActive))
          /\ UserStep(now)
    /\ UNCHANGED ids

\* game.socket hands the event to every listener registered on the client, one
\* after the other.
Logged(d0, d1) == IF d1.interceptedMessages # d0.interceptedMessages THEN 1 ELSE 0
RECURSIVE Heard(_, _, _, _, _)
Heard(w, event, now, rec, listeners) ==
    IF listeners = 0 THEN w
    ELSE LET w1 == _onSocketMessage(w, event.to,
                                    [type |-> event.type, payload |-> event.payload],
                                    now, rec)
         IN Heard(w1, event, now, rec + Logged(w.data[event.to], w1.data[event.to]),
                  listeners - 1)

Deliver(event) ==
    /\ event \in BagToSet(socket)
    /\ LET w == [World EXCEPT !.socket = @ (-) One(event)] IN
       /\ Becomes(Heard(w, event, clock, ids.rec, session[event.to].listeners))
       /\ ids' = [ids EXCEPT !.rec = @ + Len(data'[event.to].interceptedMessages)
                                         - Len(data[event.to].interceptedMessages)]
    /\ UNCHANGED <<gmActive, clock, ops, twin, last, session>>

RunTask(me, task) ==
    /\ task \in BagToSet(tasks[me])
    /\ Becomes(Resumed(World, me, task, clock, ids.rec, gmActive))
    /\ ids' = [ids EXCEPT !.rec = IF data'[me].interceptedMessages
                                       # data[me].interceptedMessages
                                    THEN @ + 1 ELSE @]
    /\ UNCHANGED <<gmActive, clock, ops, twin, last, session>>

RequestMessageSync(me) ==
    /\ ops < MaxOps
    /\ IsActive(me, gmActive)
    /\ Becomes(requestMessageSync(World, me, gmActive))
    /\ UserStep(clock)
    /\ UNCHANGED ids

\* The calls below may name a conversation or a message the caller does not hold.
DeleteMessage(me, conversationId, messageId, isGroup) ==
    /\ ops < MaxOps
    /\ IsActive(me, gmActive)
    /\ Becomes(RNK_deleteMessage(World, me, conversationId, messageId, isGroup, gmActive))
    /\ UserStep(clock)
    /\ UNCHANGED ids

ToggleReaction(me, conversationId, messageId, emoji, isGroup) ==
    /\ ops < MaxOps
    /\ IsActive(me, gmActive)
    /\ Becomes(toggleReaction(World, me, conversationId, messageId, emoji, isGroup, gmActive))
    /\ UserStep(clock)
    /\ UNCHANGED ids

\* last keeps who made this call, and that it was call number ops + 1.
DeleteGroup(me, groupId) ==
    /\ ops < MaxOps
    /\ IsActive(me, gmActive)
    /\ Becomes(RNK_deleteGroup(World, me, groupId, gmActive))
    /\ ops' = ops + 1
    /\ last' = [op |-> "deleteGroup", by |-> me, groupId |-> groupId, n |-> ops + 1]
    /\ UNCHANGED <<gmActive, clock, ids, twin, session>>

\* The moderation window opens for game masters only.
ClearConversation(me, convId, isGroup) ==
    /\ ops < MaxOps
    /\ isGM(me) /\ IsActive(me, gmActive)
    /\ convId \in DOMAIN ChatsOf(data[me], isGroup)
    /\ Becomes(_onClearConversation(World, me, convId, isGroup))
    /\ UserStep(clock)
    /\ UNCHANGED ids

DeleteConversation(me, convId, isGroup) ==
    /\ ops < MaxOps
    /\ isGM(me) /\ IsActive(me, gmActive)
    /\ convId \in DOMAIN ChatsOf(data[me], isGroup)
    /\ Becomes(_onDeleteConversation(World, me, convId, isGroup, gmActive))
    /\ UserStep(clock)
    /\ UNCHANGED ids

\* The group manager opens for game masters only.
EditGroup(me, groupId, result) ==
    /\ ops < MaxOps
    /\ isGM(me) /\ IsActive(me, gmActive)
    /\ groupId \in DOMAIN data[me].groupChats
    /\ Becomes(_onEditGroup(World, me, groupId, result, gmActive))
    /\ UserStep(clock)
    /\ UNCHANGED ids

MessageIds == 1..MaxOps

(***************************************************************************)
(* Private messaging between two players and the game master.  What the    *)
(* message says plays no part in routing, so every message here is Hello.  *)
(***************************************************************************)
Talkers == {"U1", "U2", "GM"}

Next ==
    \/ \E me \in Talkers, r \in Talkers : SendMessage(me, r, Hello)
    \/ \E e \in BagToSet(socket) : Deliver(e)
    \/ \E me \in Users : \E t \in BagToSet(tasks[me]) : RunTask(me, t)

Spec == Init /\ [][Next]_vars

(***************************************************************************)
(* The same run with and without an observer.  `twin` is the world in      *)
(* which no game master is connected; the players take the same steps in   *)
(* both worlds, and the transport and the scheduler treat the players      *)
(* alike in both.                                                          *)
(***************************************************************************)
InitTwin == Init /\ gmActive

TwinSend(me, recipientId, messageContent) ==
    /\ ops < MaxOps
    /\ recipientId # me
    /\ \E now \in Now :
          /\ Becomes(sendMessage(World, me, recipientId, messageContent, now,
                                 ids.msg, ids.rec, gmActive))
          /\ twin' = sendMessage(twin, me, recipientId, messageContent, now,
                                 ids.msg, ids.rec, FALSE)
          /\ clock' = now
    /\ ids' = [ids EXCEPT !.msg = @ + 1]
    /\ ops' = ops + 1
    /\ UNCHANGED <<gmActive, last, session>>

TwinDeliver(event) ==
    /\ event \in BagToSet(socket)
    /\ Becomes(Delivered(World, event, clock, ids.rec))
    /\ twin' = IF event.to \in Players /\ event \in BagToSet(twin.socket)
               THEN Delivered(twin, event, clock, ids.rec) ELSE twin
    /\ ids' = [ids EXCEPT !.rec = IF data'[event.to].interceptedMessages
                                       # data[event.to].interceptedMessages
                                    THEN @ + 1 ELSE @]
    /\ UNCHANGED <<gmActive, clock, ops, last, session>>

TwinRunTask(me, task) ==
    /\ task \in BagToSet(tasks[me])
    /\ Becomes(Resumed(World, me, task, clock, ids.rec, gmActive))
    /\ twin' = IF me \in Players /\ task \in BagToSet(twin.tasks[me])
               THEN Resumed(twin, me, task, clock, ids.rec, FALSE) ELSE twin
    /\ UNCHANGED <<gmActive, clock, ops, ids, last, session>>

NextTwin ==
    \/ \E me \in Players \ {"U3"}, r \in Players \ {"U3"} : TwinSend(me, r, Hello)
    \/ \E e \in BagToSet(socket) : TwinDeliver(e)
    \/ \E me \in Users : \E t \in BagToSet(tasks[me]) : TwinRunTask(me, t)

SpecTwin == InitTwin /\ [][NextTwin]_vars

(***************************************************************************)
(* Group conversations: a group is created, its members talk.              *)
(***************************************************************************)
Crew == {"U1", "U2", "U3"}

NextGroup ==
    \/ \E me \in {"U1", "GM"}, name \in GroupNames : CreateGroup(me, name, Crew)
    \/ \E me \in Users, g \in GroupIds : SendGroupMessage(me, g, Hello)
    \/ \E e \in BagToSet(socket) : Deliver(e)
    \/ \E me \in Users : \E t \in BagToSet(tasks[me]) : RunTask(me, t)

SpecGroup == Init /\ [][NextGroup]_vars

(***************************************************************************)
(* Edits.  The run starts where U1's first message to U2 has reached U2:   *)
(* U2's auto-opened window is still to render and, with a game master      *)
(* connected, the relay copy is still in flight.                           *)
(***************************************************************************)
FirstSent(active) == sendMessage(EmptyWorld, "U1", "U2", Hello, 1, 1, 1, active)
FirstDelivered(active) ==
    Delivered(FirstSent(active),
              CHOOSE e \in BagToSet(FirstSent(active).socket) : e.to = "U2", 1, 1)

InitEdit ==
    /\ gmActive \in BOOLEAN
    /\ data = FirstDelivered(gmActive).data
    /\ ui = FirstDelivered(gmActive).ui
    /\ tasks = FirstDelivered(gmActive).tasks
    /\ socket = FirstDelivered(gmActive).socket
    /\ clock = 1
    /\ ids = [msg |-> 2, rec |-> 1, group |-> 1]
    /\ ops = 0
    /\ twin = EmptyWorld
    /\ last = [op |-> "none"]
    /\ session = Started

NextEdit ==
    \/ \E me \in Talkers, id \in MessageIds, c \in Contents :
          EditMessage(me, getPrivateChatKey("U1", "U2"), id, c, FALSE)
    \/ \E e \in BagToSet(socket) : Deliver(e)
    \/ \E me \in Users : \E t \in BagToSet(tasks[me]) : RunTask(me, t)

SpecEdit == InitEdit /\ [][NextEdit]_vars

(***************************************************************************)
(* DataManager called directly, one call per step, on the game master's    *)
(* client: the calls the handlers make, with the message a peer supplies.  *)
(***************************************************************************)
MaxCalls == 3

StoreClient == "GM"
StoreGroup == GroupId(1)
StoreIds == {1, 2, 3}
StoreTimes == 1..MaxTime
StoreMessages ==
    {[id |-> i, senderId |-> s, messageContent |-> c, timestamp |-> t, edited |-> FALSE] :
        i \in StoreIds, s \in {"U1", "U2"}, c \in Contents, t \in StoreTimes}
StoreRecords ==
    {MonitorPayload(m.senderId, Def("U2"), Undefined, Undefined, m) :
        m \in {x \in StoreMessages : x.id = 1 /\ x.messageContent = Hello}}

StoreCall(d, call) ==
    /\ ops < MaxCalls
    /\ data' = [data EXCEPT ![StoreClient] = Unshared(d)]
    /\ last' = call
    /\ ops' = ops + 1
    /\ UNCHANGED <<ui, tasks, socket, gmActive, clock, ids, twin, session>>

StoreAddPrivate(userId1, userId2, messageData) ==
    StoreCall(addPrivateMessage(data[StoreClient], userId1, userId2, messageData, clock),
              [op |-> "addPrivateMessage", conv |-> getPrivateChatKey(userId1, userId2),
               msg |-> Parsed(messageData)])

StoreAddGroup(groupId, messageData) ==
    StoreCall(addGroupMessage(data[StoreClient], groupId, messageData, clock),
              [op |-> "addGroupMessage", conv |-> groupId, msg |-> Parsed(messageData)])

StoreEdit(conversationId, messageId, newContent, isGroup) ==
    StoreCall(editMessage(data[StoreClient], conversationId, messageId, newContent,
                          isGroup, clock),
              [op |-> "editMessage", conv |-> conversationId])

StoreIntercept(payload) ==
    /\ StoreCall(addInterceptedMessage(data[StoreClient], payload, ids.rec, clock),
                 [op |-> "addInterceptedMessage"])

InitStore ==
    /\ Init
    /\ gmActive

StoreCreateGroup(name, members) ==
    /\ ids.group <= MaxGroups
    /\ ops < MaxCalls
    /\ data' = [data EXCEPT ![StoreClient] =
                   createGroup(@, GroupId(ids.group), name, members, StoreClient, clock)]
    /\ ids' = [ids EXCEPT !.group = @ + 1]
    /\ last' = [op |-> "createGroup"]
    /\ ops' = ops + 1
    /\ UNCHANGED <<ui, tasks, socket, gmActive, clock, twin, session>>

NextStore ==
    \/ \E m \in StoreMessages : StoreAddPrivate("U1", "U2", m)
    \/ \E m \in StoreMessages : StoreAddGroup(StoreGroup, m)
    \/ \E name \in GroupNames : StoreCreateGroup(name, {StoreClient, "U1", "U2"})
    \/ \E isGroup \in BOOLEAN, id \in StoreIds, c \in Contents :
          StoreEdit(IF isGroup THEN StoreGroup ELSE getPrivateChatKey("U1", "U2"),
                    id, c, isGroup)
    \/ \E r \in StoreRecords : StoreIntercept(r)

SpecStore == InitStore /\ [][NextStore]_vars

\* The events in flight to user u.
EventsTo(bag, u) == [e \in {x \in BagToSet(bag) : x.to = u} |-> bag[e]]
TheGM == CHOOSE g \in GMs : TRUE
RelaysInFlight == {e \in BagToSet(socket) : Prop(e.payload, "isRelay") = Def(TRUE)}
Quiet(u) == EventsTo(socket, u) = <<>> /\ tasks[u] = EmptyBag

\* C1: stealth relay non-interference.  With an observer connected or not, every
\* player's client is in the same state after the same steps: same DataManager
\* (histories, unread counters), same windows and pending tasks, and the same
\* events in flight to it.
C1_NonInterference ==
    \A p \in Players :
        /\ data[p] = twin.data[p]
        /\ ui[p] = twin.ui[p]
        /\ tasks[p] = twin.tasks[p]
        /\ EventsTo(socket, p) = EventsTo(twin.socket, p)

\* A player-to-player message has reached its addressee while the observer
\* has logged it.
C1_Witness ==
    /\ Len(data[TheGM].interceptedMessages) > 0
    /\ \E p \in Players : getUnreadCount(data[p], getPrivateChatKey("U1", "U2")) > 0

\* User a holds a message of its own in its conversation with b: a has sent to b.
HasSentTo(a, b) ==
    /\ a # b
    /\ getPrivateChatKey(a, b) \in DOMAIN data[a].privateChats
    /\ \E i \in 1..Len(data[a].privateChats[getPrivateChatKey(a, b)].history) :
          data[a].privateChats[getPrivateChatKey(a, b)].history[i].senderId = a

\* C2: with the observer connected, once the one private message a player A has
\* sent to a player B has been delivered everywhere, the observer's
\* interceptedMessages holds exactly one record, with senderId A and recipientId B.
C2_OneRecord ==
    \A a \in Players, b \in Players :
        (gmActive /\ ops = 1 /\ HasSentTo(a, b) /\ Quiet(TheGM))
        => LET log == data[TheGM].interceptedMessages IN
           /\ Len(log) = 1
           /\ log[1].senderId = a
           /\ log[1].recipientId = Def(b)
           /\ log[1].messageData.senderId = a

C2_Witness ==
    /\ gmActive /\ ops = 1 /\ Quiet(TheGM)
    /\ \E a \in Players, b \in Players : HasSentTo(a, b)
    /\ Len(data[TheGM].interceptedMessages) = 1

\* C3: every relay copy in flight is addressed to a game master only, and was
\* emitted for a message whose sender and addressed recipient are both players.
C3_RelayOnlyBetweenPlayers ==
    \A e \in RelaysInFlight :
        /\ e.type = "privateMessage"
        /\ e.to \in GMs
        /\ e.payload.recipientId = e.to
        /\ e.payload.originalSenderId \in Players
        /\ e.payload.originalRecipientId \in Players
        /\ e.payload.message.senderId = e.payload.originalSenderId

\* A relay copy is in flight while the game master has exchanged a message too.
C3_Witness ==
    /\ RelaysInFlight # {}
    /\ \E g \in GMs : data[g].privateChats # <<>>

\* C10: once U1's "hello" has been delivered to U2, who had no window open, U2
\* holds exactly that message from U1 in the conversation, U1's unread count for
\* the conversation is 0 and U2's is 1.
C10_PrivateDelivery ==
    LET chatKey == getPrivateChatKey("U1", "U2") IN
    (/\ ops = 1
     /\ HasSentTo("U1", "U2")
     /\ data["U1"].privateChats[chatKey].history[1].messageContent = Hello
     /\ EventsTo(socket, "U2") = <<>>)
    => /\ chatKey \in DOMAIN data["U2"].privateChats
       /\ Len(data["U2"].privateChats[chatKey].history) = 1
       /\ data["U2"].privateChats[chatKey].history[1].senderId = "U1"
       /\ data["U2"].privateChats[chatKey].history[1].messageContent = Hello
       /\ getUnreadCount(data["U1"], chatKey) = 0
       /\ getUnreadCount(data["U2"], chatKey) = 1

(***************************************************************************)
(* Histories                                                               *)
(***************************************************************************)
Histories(d) ==
    {d.privateChats[k].history : k \in DOMAIN d.privateChats}
        \cup {d.groupChats[g].history : g \in DOMAIN d.groupChats}

NoDuplicateIds(history) ==
    \A i, j \in 1..Len(history) : history[i].id = history[j].id => i = j
NoDuplicateFingerprints(history) ==
    \A i, j \in 1..Len(history) : Signature(history[i]) = Signature(history[j]) => i = j

\* The history the latest direct append was made to (empty when the call named
\* a group the client does not hold).
LastAppend == last.op \in {"addPrivateMessage", "addGroupMessage"}
LastHistory ==
    LET chats == ChatsOf(data[StoreClient], last.op = "addGroupMessage") IN
    IF last.conv \in DOMAIN chats THEN chats[last.conv].history ELSE <<>>
CopiesById(history, msg) == {i \in 1..Len(history) : history[i].id = msg.id}
CopiesByFingerprint(history, msg) ==
    {i \in 1..Len(history) : Signature(history[i]) = Signature(msg)}

\* Right after an append of msg the history holds at most one entry with msg's
\* id and at most one with msg's fingerprint, and msg is represented by one.
AppendAbsorbed ==
    (LastAppend /\ LastHistory # <<>>)
    => /\ Cardinality(CopiesById(LastHistory, last.msg)) <= 1
       /\ Cardinality(CopiesByFingerprint(LastHistory, last.msg)) <= 1
       /\ CopiesById(LastHistory, last.msg)
             \cup CopiesByFingerprint(LastHistory, last.msg) # {}

\* C4: an append of a message whose id or fingerprint is already present
\* leaves exactly one copy, and in every reachable state no history holds two
\* entries with equal id or with equal fingerprint.
C4_NoDuplicatesEver ==
    /\ AppendAbsorbed
    /\ \A u \in Users : \A h \in Histories(data[u]) :
          NoDuplicateIds(h) /\ NoDuplicateFingerprints(h)

\* The conversation between U1 and U2 as client u holds it.
Conversation(u) ==
    LET chatKey == getPrivateChatKey("U1", "U2") IN
    IF chatKey \in DOMAIN data[u].privateChats
    THEN data[u].privateChats[chatKey].history ELSE <<>>
ContentOf(history, id) ==
    {history[i].messageContent : i \in {j \in 1..Len(history) : history[j].id = id}}
EditsInFlight ==
    \/ \E e \in BagToSet(socket) : e.type = "editMessage"
    \/ \E u \in Users : \E t \in BagToSet(tasks[u]) : t.kind = "editTail"

\* C5: once every editMessage event has been delivered, the two parties of the
\* conversation hold the same content for every message.
C5_EditsConverge ==
    ~EditsInFlight
    => \A id \in MessageIds :
          ContentOf(Conversation("U1"), id) = ContentOf(Conversation("U2"), id)

\* C6: every private and group history holds at most maxMessageHistory messages.
C6_HistoryCap ==
    \A u \in Users : \A h \in Histories(data[u]) : Len(h) <= maxMessageHistory

\* C7: interceptedMessages holds at most maxIntercepted records.
C7_InterceptCap ==
    \A u \in Users : Len(data[u].interceptedMessages) <= maxIntercepted

\* U1 has created the group with members U1, U2, U3 and U2 has sent its one
\* message to it.
GroupScenario ==
    LET g == GroupId(1) IN
    /\ ops = 2
    /\ g \in DOMAIN data["U1"].groupChats
    /\ data["U1"].groupChats[g].createdBy = "U1"
    /\ data["U1"].groupChats[g].members = Crew
    /\ g \in DOMAIN data["U2"].groupChats
    /\ Len(data["U2"].groupChats[g].history) = 1
    /\ data["U2"].groupChats[g].history[1].senderId = "U2"

\* C8: with an observer connected who is not a member, once U2's group message
\* has been delivered everywhere the observer's interceptedMessages holds
\* exactly one record, with groupId G.
C8_GroupInterception ==
    (GroupScenario /\ gmActive /\ socket = EmptyBag /\ tasks[TheGM] = EmptyBag)
    => /\ Len(data[TheGM].interceptedMessages) = 1
       /\ data[TheGM].interceptedMessages[1].groupId = Def(GroupId(1))

\* C9: once U2's group message has been delivered to U1 and to U3 (who held the
\* group when it arrived), U3's history for G is exactly that message, U1's
\* unread count for G is 1 and U2's is 0.
C9_GroupDelivery ==
    LET g == GroupId(1) IN
    (/\ GroupScenario
     /\ socket = EmptyBag
     /\ g \in DOMAIN data["U3"].groupChats
     /\ data["U3"].groupChats[g].history # <<>>
     /\ data["U1"].groupChats[g].history # <<>>)
    => /\ data["U3"].groupChats[g].history = data["U2"].groupChats[g].history
       /\ getUnreadCount(data["U1"], g) = 1
       /\ getUnreadCount(data["U2"], g) = 0

\* C11: a game master's own send emits no relay copy and puts exactly one
\* record for the message in its interceptedMessages at send time; a
\* non-relay message addressed to the game master puts exactly one record
\* there once the game master has handled it.
C11_PrivilegedNeedsNoRelay ==
    LET log == data[TheGM].interceptedMessages IN
    /\ \A r \in Players :
          (ops = 1 /\ HasSentTo(TheGM, r))
          => /\ RelaysInFlight = {}
             /\ Len(log) = 1
             /\ log[1].senderId = TheGM
             /\ log[1].recipientId = Def(r)
             /\ log[1].messageData.id = 1
    /\ \A a \in Players :
          (ops = 1 /\ gmActive /\ HasSentTo(a, TheGM) /\ Quiet(TheGM))
          => /\ RelaysInFlight = {}
             /\ Len(log) = 1
             /\ log[1].senderId = a
             /\ log[1].recipientId = Def(TheGM)
             /\ log[1].messageData.id = 1

\* The game master has sent its message and the record of it is in the log.
C11_Witness ==
    /\ ops = 1
    /\ \E r \in Players : HasSentTo(TheGM, r)
    /\ Len(data[TheGM].interceptedMessages) = 1

\* The delivery of event e is the step being taken.
Handles(e) == e \in BagToSet(socket) /\ socket' = socket (-) One(e)

\* What handling the relay copy e leaves on the observer, whatever "holds m" means:
\* the conversation PrivateKey(A, B) exists with participants A and B, and
\* the unread counters are what they were.
RelayFiledSilently(e) ==
    LET g == e.to
        A == e.payload.originalSenderId
        B == e.payload.originalRecipientId
        chatKey == getPrivateChatKey(A, B)
    IN /\ chatKey \in DOMAIN data'[g].privateChats
       /\ {data'[g].privateChats[chatKey].users[i] : i \in {1, 2}} = {A, B}
       /\ data'[g].unreadCounts = data[g].unreadCounts

RelayHistory(e) ==
    data'[e.to].privateChats[getPrivateChatKey(e.payload.originalSenderId,
                                               e.payload.originalRecipientId)].history

\* C12 as stated: when the observer handles the relay copy of a message m from
\* A to B, its store then holds the entry m (by id) in the conversation keyed
\* PrivateKey(A, B), whose participants are A and B, and its unread counters
\* are what they were.
C12_RelayStoredById ==
    [][\A e \in RelaysInFlight :
          Handles(e) => /\ RelayFiledSilently(e)
                        /\ HasId(RelayHistory(e), e.payload.message.id)]_vars

\* C12 amended: as above, but the history holds m up to the store's notion of
\* "the same message": an entry with m's id, or an earlier entry with m's
\* sender, timestamp and content, which absorbs m.
C12_RelayStoredSilently ==
    [][\A e \in RelaysInFlight :
          Handles(e) =>
             /\ RelayFiledSilently(e)
             /\ \E i \in 1..Len(RelayHistory(e)) :
                   \/ RelayHistory(e)[i].id = e.payload.message.id
                   \/ Signature(RelayHistory(e)[i]) = Signature(Parsed(e.payload.message))]_vars

\* The observer has handled the relay copy of a message between two players and
\* counts nothing unread.
C12_Witness ==
    /\ gmActive /\ RelaysInFlight = {}
    /\ getPrivateChatKey("U1", "U2") \in DOMAIN data[TheGM].privateChats
    /\ data[TheGM].unreadCounts = <<>>

(***************************************************************************)
(* Catch-up.  Players exchange messages and ask the connected game master  *)
(* for a resync; the transport hands over every event in flight and every  *)
(* awaited save resolves.                                                  *)
(***************************************************************************)
NextSync ==
    \/ \E me \in {"U1", "U2"}, r \in {"U1", "U2"} : SendMessage(me, r, Hello)
    \/ \E me \in Players : RequestMessageSync(me)
    \/ \E e \in BagToSet(socket) : Deliver(e)
    \/ \E me \in Users : \E t \in BagToSet(tasks[me]) : RunTask(me, t)

SpecSync ==
    /\ InitTwin
    /\ [][NextSync]_vars
    /\ WF_vars(\E e \in BagToSet(socket) : Deliver(e))
    /\ WF_vars(\E me \in Users : \E t \in BagToSet(tasks[me]) : RunTask(me, t))

\* u's resync request is on its way to the game master.
SyncRequested(u) ==
    \E e \in BagToSet(socket) : e.type = "SYNC_REQUEST" /\ e.payload.userId = u

SnapshotInFlight(u, type) ==
    \E e \in BagToSet(socket) : e.type = type /\ e.to = u

\* u holds every conversation of the game master's store that u takes part in.
CaughtUp(u) ==
    /\ \A k \in DOMAIN data[TheGM].privateChats :
          (\E i \in {1, 2} : data[TheGM].privateChats[k].users[i] = u)
          => k \in DOMAIN data[u].privateChats
    /\ \A g \in DOMAIN data[TheGM].groupChats :
          u \in data[TheGM].groupChats[g].members => g \in DOMAIN data[u].groupChats

\* C13: with the game master connected and every event delivered, a player's
\* requestMessageSync leads to a PrivateSync and a GroupSync snapshot on their
\* way to the player, and to the player holding every conversation of the
\* game master's store it takes part in.
C13_SyncCatchesUp ==
    \A u \in Players :
        /\ SyncRequested(u) ~> SnapshotInFlight(u, "privateSync")
        /\ SyncRequested(u) ~> SnapshotInFlight(u, "groupSync")
        /\ SyncRequested(u) ~> CaughtUp(u)

\* A socket handler of client u is suspended at its `await`, with part of its
\* mutations (unread counter, interception record) still to make.
HandlerTails(u) == {t \in BagToSet(tasks[u]) : t.kind \in {"privateTail", "groupTail"}}

\* The step resumes one of u's suspended handlers.
ResumesHandler(u) == \E t \in HandlerTails(u) : tasks'[u] = tasks[u] (-) One(t)

\* C14: on every client, the game master's included, a handler makes all its
\* mutations of the store, the unread counters and the interception log before
\* another handler or a local action mutates them: while a handler of a
\* client is unfinished, only its resumption changes that client's DataManager.
C14_HandlersNeverInterleave ==
    [][\A u \in Users :
          (HandlerTails(u) # {} /\ data'[u] # data[u]) => ResumesHandler(u)]_vars

(***************************************************************************)
(* Moderation.  U1's "hello" has reached U2; U2 answers, U1 edits its      *)
(* message, anyone deletes it, and the game master clears or deletes the   *)
(* conversation in the moderation window.                                  *)
(***************************************************************************)
ModKey == getPrivateChatKey("U1", "U2")

NextMod ==
    \/ SendMessage("U2", "U1", Hello)
    \/ EditMessage("U1", ModKey, 1, Hello, FALSE)
    \/ \E me \in Talkers : DeleteMessage(me, ModKey, 1, FALSE)
    \/ ClearConversation(TheGM, ModKey, FALSE)
    \/ DeleteConversation(TheGM, ModKey, FALSE)
    \/ \E e \in BagToSet(socket) : Deliver(e)
    \/ \E me \in Users : \E t \in BagToSet(tasks[me]) : RunTask(me, t)

SpecMod == InitEdit /\ [][NextMod]_vars

PrivateKeys(d) == DOMAIN d.privateChats

LifeGroup == GroupId(1)
LifeMembers == {"U1", "U2", "GM"}
LifeRecord ==
    createGroup(EmptyData, LifeGroup, "crew", LifeMembers, "U1", 1).groupChats[LifeGroup]

InitLife ==
    /\ data = [u \in Users |->
                  IF u \in LifeMembers
                  THEN _handleGroupCreate(EmptyWorld, u, [group |-> LifeRecord]).data[u]
                  ELSE EmptyData]
    /\ ui = EmptyWorld.ui
    /\ tasks = EmptyWorld.tasks
    /\ socket = EmptyWorld.socket
    /\ gmActive = TRUE
    /\ clock = 1
    /\ ids = [msg |-> 1, rec |-> 1, group |-> 2]
    /\ ops = 0
    /\ twin = EmptyWorld
    /\ last = [op |-> "none"]
    /\ session = Started

\* What the game master may leave ticked in the edit dialog.
LifeTicked == {{"U2", "GM"}}

NextLife ==
    \/ SendGroupMessage("U1", LifeGroup, Hello)
    \/ \E me \in {"U1", "GM"} : DeleteGroup(me, LifeGroup)
    \/ \E ticked \in LifeTicked :
          EditGroup(TheGM, LifeGroup, [name |-> "crew", members |-> ticked])
    \/ \E e \in BagToSet(socket) : Deliver(e)
    \/ \E me \in Users : \E t \in BagToSet(tasks[me]) : RunTask(me, t)

SpecLife == InitLife /\ [][NextLife]_vars

\* The client-local state kept under a conversation id.
Ephemeral(d, conversationId) ==
    \/ conversationId \in DOMAIN d.unreadCounts
    \/ conversationId \in d.lastRead
    \/ conversationId \in d.mutedConversations

\* The step in which the deletion of group g completes on client u: the
\* GroupDelete handler on a member, the end of RNKCyphur.deleteGroup on the
\* game master who called it.
DeleteCompletes(u, g) ==
    IF isGM(u)
    THEN \E t \in BagToSet(tasks[u]) :
            t.kind = "deleteGroupTail" /\ t.groupId = g /\ tasks'[u] = tasks[u] (-) One(t)
    ELSE g \in DOMAIN data[u].groupChats /\ g \notin DOMAIN data'[u].groupChats

\* C16: when deleteGroup(G) completes on a client, by the game master's call
\* or by the GroupDelete event, the client holds no unread counter, last-read
\* stamp or mute entry keyed by G.
C16_DeleteGroupCascades ==
    [][\A u \in Users, g \in GroupIds :
          DeleteCompletes(u, g) => ~Ephemeral(data'[u], g)]_vars

\* C17: in every client's store, every group's member list contains the
\* group's createdBy user.
C17_CreatorIsMember ==
    \A u \in Users : \A g \in DOMAIN data[u].groupChats :
        data[u].groupChats[g].createdBy \in data[u].groupChats[g].members

\* C20: when a player calls RNKCyphur.deleteGroup(G), the step changes no
\* client's DataManager (the caller's groupChats included), queues no save,
\* closes no window and emits no event.
C20_PlayerCannotDeleteGroup ==
    [][\A p \in Players :
          (ops' = ops + 1 /\ last'.op = "deleteGroup" /\ last'.n = ops' /\ last'.by = p)
          => /\ data' = data
             /\ tasks' = tasks
             /\ ui' = ui
             /\ socket' = socket]_vars

\* A player has called deleteGroup and still holds the group.
C20_Witness ==
    /\ last.op = "deleteGroup" /\ last.by \in Players
    /\ last.groupId \in DOMAIN data[last.by].groupChats

(***************************************************************************)
(* Sending through the module API, where the text may be the empty string  *)
(* and no image is attached.                                               *)
(***************************************************************************)
ApiContents == {<<>>, Hello}

NextApi ==
    \/ \E me \in Talkers, r \in Talkers, c \in ApiContents : SendMessage(me, r, c)
    \/ \E e \in BagToSet(socket) : Deliver(e)
    \/ \E me \in Users : \E t \in BagToSet(tasks[me]) : RunTask(me, t)

SpecApi == Init /\ [][NextApi]_vars

\* A message with neither text nor image.
Blank(message) == message.messageContent = <<>> /\ "imageUrl" \notin DOMAIN message

\* C18: a message with neither non-empty content nor an image is rejected:
\* no history of any client holds one and no event in flight carries one.
C18_BlankMessagesRejected ==
    /\ \A u \in Users : \A k \in DOMAIN data[u].privateChats :
          \A i \in 1..Len(data[u].privateChats[k].history) :
             ~Blank(data[u].privateChats[k].history[i])
    /\ \A e \in BagToSet(socket) :
          e.type = "privateMessage" => ~Blank(e.payload.message)

(***************************************************************************)
(* Edits, deletions and reactions that may miss their target.  The game    *)
(* master has received and handled U1's "hello" (one conversation, one     *)
(* unread message, one interception record); its DataManager is then       *)
(* called directly, with conversations and message ids it may not hold.    *)
(***************************************************************************)
TargetSent == sendMessage(EmptyWorld, "U1", StoreClient, Hello, 1, 1, 1, TRUE)
TargetDelivered ==
    Delivered(TargetSent, CHOOSE e \in BagToSet(TargetSent.socket) : e.to = StoreClient, 1, 1)
TargetHandled ==
    Resumed(TargetDelivered, StoreClient,
            CHOOSE t \in BagToSet(TargetDelivered.tasks[StoreClient]) : t.kind = "privateTail",
            1, 1, TRUE)

InitTarget ==
    /\ data = TargetHandled.data
    /\ ui = TargetHandled.ui
    /\ tasks = TargetHandled.tasks
    /\ socket = TargetHandled.socket
    /\ gmActive = TRUE
    /\ clock = 1
    /\ ids = [msg |-> 2, rec |-> 2, group |-> 1]
    /\ ops = 0
    /\ twin = EmptyWorld
    /\ last = [op |-> "none"]
    /\ session = Started

\* The conversation the client holds, one it does not, and a group it does not.
TargetConversations ==
    {[conv |-> getPrivateChatKey("U1", StoreClient), isGroup |-> FALSE],
     [conv |-> getPrivateChatKey("U2", StoreClient), isGroup |-> FALSE],
     [conv |-> StoreGroup, isGroup |-> TRUE]}
TargetIds == {1, 2}
Emojis == {"+1"}

\* The call, what it returned, and that it was call number ops + 1.
TargetCall(op, c, messageId) ==
    [op |-> op, conv |-> c.conv, isGroup |-> c.isGroup, id |-> messageId,
     returned |-> Found(data[StoreClient], c.conv, messageId, c.isGroup), n |-> ops + 1]

TargetEdit(c, messageId, newContent) ==
    StoreCall(editMessage(data[StoreClient], c.conv, messageId, newContent, c.isGroup, clock),
              TargetCall("editMessage", c, messageId))

TargetDelete(c, messageId) ==
    StoreCall(deleteMessage(data[StoreClient], c.conv, messageId, c.isGroup),
              TargetCall("deleteMessage", c, messageId))

\* The reactions of a message as the mapping emoji -> set of users (none for
\* a message the client does not hold).
ReactionSets(d, conversationId, messageId, isGroup) ==
    IF ~Found(d, conversationId, messageId, isGroup) THEN <<>>
    ELSE LET h == ChatsOf(d, isGroup)[conversationId].history
             r == Reactions(h[FindIndex(h, messageId)])
         IN [e \in DOMAIN r |-> {r[e][i] : i \in 1..Len(r[e])}]

\* The call before this one was the same addReaction call and found its message.
Repeats(c, messageId, emoji, userId) ==
    /\ last.op = "addReaction" /\ last.n = ops /\ last.returned
    /\ <<last.conv, last.isGroup, last.id, last.emoji, last.user>>
          = <<c.conv, c.isGroup, messageId, emoji, userId>>

\* An addReaction call is recorded with its emoji, its user, the reactions of
\* the message before it and, when it repeats the call before it, the
\* reactions before that one.
TargetReact(c, messageId, emoji, userId) ==
    StoreCall(addReaction(data[StoreClient], c.conv, messageId, emoji, userId, c.isGroup),
              [op |-> "addReaction", conv |-> c.conv, isGroup |-> c.isGroup, id |-> messageId,
               returned |-> Found(data[StoreClient], c.conv, messageId, c.isGroup),
               n |-> ops + 1, emoji |-> emoji, user |-> userId,
               before |-> ReactionSets(data[StoreClient], c.conv, messageId, c.isGroup),
               start |-> IF Repeats(c, messageId, emoji, userId) THEN Def(last.before)
                         ELSE Undefined])

NextTarget ==
    \/ \E c \in TargetConversations, id \in TargetIds, t \in Contents : TargetEdit(c, id, t)
    \/ \E c \in TargetConversations, id \in TargetIds : TargetDelete(c, id)
    \/ \E c \in TargetConversations, id \in TargetIds, e \in Emojis, u \in {"U1", StoreClient} :
          TargetReact(c, id, e, u)
    \/ \E id \in TargetIds :
          StoreAddPrivate("U1", StoreClient, NewMessage("U1", Hello, id, id))

SpecTarget == InitTarget /\ [][NextTarget]_vars

\* The step is a call of editMessage, deleteMessage or addReaction.
TargetStep ==
    /\ ops' = ops + 1
    /\ last'.op \in {"editMessage", "deleteMessage", "addReaction"}
    /\ last'.n = ops'

\* C19: editMessage, deleteMessage and addReaction called with a conversation
\* the client does not hold, or with a message id that is not in the
\* conversation, return false and leave the client's DataManager (histories,
\* reactions, unread counters, interception log) as it was.
C19_MissingTargetIsNoOp ==
    [][(/\ TargetStep
        /\ ~Found(data[StoreClient], last'.conv, last'.id, last'.isGroup))
       => /\ last'.returned = FALSE
          /\ data' = data]_vars

\* A call has missed its target on a client that holds a message, an unread
\* counter and an interception record.
C19_Witness ==
    /\ last.op \in {"editMessage", "deleteMessage", "addReaction"}
    /\ last.returned = FALSE
    /\ \E h \in Histories(data[StoreClient]) : h # <<>>
    /\ data[StoreClient].unreadCounts # <<>>
    /\ data[StoreClient].interceptedMessages # <<>>

\* C21: group creation is for game masters only: no client's store holds a
\* group created by a player, and no GroupCreate event for such a group is in
\* flight.
C21_OnlyGMCreatesGroups ==
    /\ \A u \in Users : \A g \in DOMAIN data[u].groupChats :
          data[u].groupChats[g].createdBy \in GMs
    /\ \A e \in BagToSet(socket) :
          e.type = "groupCreate" => e.payload.group.createdBy \in GMs

(***************************************************************************)
(* Snapshots: the GroupCreate, GroupSync and PrivateSync events a client   *)
(* is handed, with payloads that also hold conversations of other users.   *)
(***************************************************************************)
SnapReceivers == {"U1", "U2"}
SnapKeys == {getPrivateChatKey("U1", "U2"), getPrivateChatKey("U2", "U3"),
             getPrivateChatKey("U1", "U3")}
SnapHistories == {<<>>, <<Parsed(NewMessage("U3", Hello, 1, 1))>>}
SnapChats ==
    UNION {{[k \in K |-> [users |-> k, history |-> h]] : h \in SnapHistories} :
              K \in SUBSET SnapKeys}
SnapGroupRecords ==
    {[id |-> GroupId(1), name |-> "crew", members |-> m, history |-> <<>>,
      createdAt |-> 1, createdBy |-> "GM"] : m \in {{"U1", "GM"}, {"U2", "U3"}}}
    \cup {[id |-> GroupId(2), name |-> "crew", members |-> {"U1", "U2"}, history |-> <<>>,
           createdAt |-> 1, createdBy |-> "GM"]}
SnapGroups ==
    {gs \in SUBSET SnapGroupRecords : \A g, h \in gs : g.id = h.id => g = h}
SnapEvents ==
    {[type |-> "privateSync", payload |-> [chats |-> c]] : c \in SnapChats}
    \cup {[type |-> "groupSync", payload |-> [groups |-> gs]] : gs \in SnapGroups}
    \cup {[type |-> "groupCreate", payload |-> [group |-> g]] : g \in SnapGroupRecords}

\* game.socket.on(SOCKET_NAME, data => _onSocketMessage(data)) with a snapshot event.
ReceiveSnapshot(me, event) ==
    /\ ops < MaxOps
    /\ Becomes(_onSocketMessage(World, me, event, clock, ids.rec))
    /\ ops' = ops + 1
    /\ last' = [op |-> "snapshot", to |-> me, type |-> event.type,
                payload |-> event.payload, n |-> ops + 1]
    /\ UNCHANGED <<gmActive, clock, ids, twin, session>>

NextSnap == \E me \in SnapReceivers, event \in SnapEvents : ReceiveSnapshot(me, event)

SpecSnap == InitTwin /\ [][NextSnap]_vars

\* The groups a snapshot event carries.
SnapPayloadGroups(type, payload) ==
    CASE type = "groupSync" -> payload.groups
      [] type = "groupCreate" -> {payload.group}
      [] OTHER -> {}

SnapPayloadChats(type, payload) == IF type = "privateSync" THEN payload.chats ELSE <<>>

Changed(before, after, k) == k \notin DOMAIN before \/ after[k] # before[k]

\* C22: a client handling a PrivateSync, GroupSync or GroupCreate event adds or
\* replaces only conversations of the payload that list the client (private
\* conversations by their users, groups by their members), stores them as sent,
\* drops none it held, and no other client's store changes.
C22_SnapshotsFiltered ==
    [][(ops' = ops + 1 /\ last'.op = "snapshot" /\ last'.n = ops')
       => LET me == last'.to
              chats == SnapPayloadChats(last'.type, last'.payload)
              groups == SnapPayloadGroups(last'.type, last'.payload)
          IN /\ DOMAIN data[me].privateChats \subseteq DOMAIN data'[me].privateChats
             /\ DOMAIN data[me].groupChats \subseteq DOMAIN data'[me].groupChats
             /\ \A k \in DOMAIN data'[me].privateChats :
                   Changed(data[me].privateChats, data'[me].privateChats, k)
                   => /\ k \in DOMAIN chats
                      /\ \E i \in 1..Len(chats[k].users) : chats[k].users[i] = me
                      /\ data'[me].privateChats[k] = chats[k]
             /\ \A k \in DOMAIN data'[me].groupChats :
                   Changed(data[me].groupChats, data'[me].groupChats, k)
                   => \E g \in groups : /\ g.id = k
                                        /\ me \in g.members
                                        /\ data'[me].groupChats[k] = g
             /\ \A u \in Users \ {me} : data'[u] = data[u]]_vars

\* A client has taken its own conversation from a private snapshot that also
\* held a conversation between two other users.
C22_Witness ==
    /\ last.op = "snapshot"
    /\ last.type = "privateSync"
    /\ \E k \in DOMAIN last.payload.chats :
          /\ \A i \in 1..Len(k) : k[i] # last.to
          /\ k \notin DOMAIN data[last.to].privateChats
    /\ \E k \in DOMAIN last.payload.chats : k \in DOMAIN data[last.to].privateChats

(***************************************************************************)
(* The transport failing: game.socket.emit throws.  SocketHandler.emit and *)
(* its callers have no try/catch, so the exception leaves sendMessage at   *)
(* the call of SocketHandler.sendPrivateMessage and rejects its promise.   *)
(***************************************************************************)
\* RNKCyphur.sendMessage up to the throwing emit: the message is in the
\* sender's history; nothing after the call has run.
sendMessageEmitThrows(w, me, recipientId, messageContent, now, id) ==
    SetData(w, me, addPrivateMessage(clearReplyTo(w.data[me]), me, recipientId,
                Replying(w.data[me], NewMessage(me, messageContent, now, id)), now))

SendMessageEmitThrows(me, recipientId, messageContent) ==
    /\ ops < MaxOps
    /\ IsActive(me, gmActive)
    /\ recipientId # me
    /\ \E now \in Now :
          /\ Becomes(sendMessageEmitThrows(World, me, recipientId, messageContent, now, ids.msg))
          /\ clock' = now
    /\ ops' = ops + 1
    /\ ids' = [ids EXCEPT !.msg = @ + 1]
    /\ last' = [op |-> "sendMessage", by |-> me, to |-> recipientId, id |-> ids.msg,
                emit |-> "threw", rejected |-> TRUE, n |-> ops + 1]
    /\ UNCHANGED <<gmActive, twin, session>>

NextDown ==
    \/ \E me \in Talkers, r \in Talkers : SendMessage(me, r, Hello)
    \/ \E me \in Talkers, r \in Talkers : SendMessageEmitThrows(me, r, Hello)
    \/ \E e \in BagToSet(socket) : Deliver(e)
    \/ \E me \in Users : \E t \in BagToSet(tasks[me]) : RunTask(me, t)

SpecDown == InitTwin /\ [][NextDown]_vars

\* C23: when the transport's emit throws during sendMessage, the failure does
\* not reach the caller, the message stays in the sender's history, and the
\* rest of the operation still runs: a sending game master has logged the
\* message in its interception log.
C23_TransportFailureSwallowed ==
    [][(ops' = ops + 1 /\ last'.op = "sendMessage" /\ last'.n = ops' /\ last'.emit = "threw")
       => LET me == last'.by
              chatKey == getPrivateChatKey(me, last'.to)
          IN /\ ~last'.rejected
             /\ chatKey \in DOMAIN data'[me].privateChats
             /\ HasId(data'[me].privateChats[chatKey].history, last'.id)
             /\ isGM(me) => \E i \in 1..Len(data'[me].interceptedMessages) :
                               data'[me].interceptedMessages[i].messageData.id = last'.id]_vars

(***************************************************************************)
(* Replies: a user picks a message of an open chat window to reply to, and *)
(* sends.                                                                  *)
(***************************************************************************)
\* ChatWindow._onReplyMessage
_onReplyMessage(w, me, conversationId, messageId) ==
    AddTask(SetData(w, me, setReplyTo(w.data[me], messageId)), me, RenderTask(conversationId))

\* The Reply button of a message shown in an open private chat window.
ReplyMessage(me, conversationId, messageId) ==
    /\ ops < MaxOps + 1
    /\ conversationId \in ui[me]
    /\ conversationId \in DOMAIN data[me].privateChats
    /\ HasId(data[me].privateChats[conversationId].history, messageId)
    /\ Becomes(_onReplyMessage(World, me, conversationId, messageId))
    /\ ops' = ops + 1
    /\ last' = [op |-> "setReplyTo", by |-> me, conv |-> conversationId, id |-> messageId,
                n |-> ops + 1]
    /\ UNCHANGED <<gmActive, clock, ids, twin, session>>

Replier == "U2"

NextReply ==
    \/ \E k \in ui[Replier], id \in 1..(MaxOps + 1) : ReplyMessage(Replier, k, id)
    \/ \E r \in {"U1", "U3"} : SendMessage(Replier, r, Hello)
    \/ \E e \in BagToSet(socket) : Deliver(e)
    \/ \E me \in Users : \E t \in BagToSet(tasks[me]) : RunTask(me, t)

SpecReply == InitEdit /\ [][NextReply]_vars

\* C24: a reply reference stays inside its conversation: a message the user
\* sent that refers to the reply target the user picked last is in the
\* conversation in which that target was picked.
C24_ReplyStaysInConversation ==
    \A k \in DOMAIN data[Replier].privateChats :
       \A i \in 1..Len(data[Replier].privateChats[k].history) :
          LET m == data[Replier].privateChats[k].history[i] IN
          (/\ "replyToId" \in DOMAIN m
           /\ m.senderId = Replier
           /\ last.op = "setReplyTo"
           /\ last.id = m.replyToId)
          => last.conv = k

\* The step is an addReaction call that found its message and repeats the
\* call before it (same conversation, message, emoji and user), which had
\* found the message too.
SecondToggle ==
    /\ ops' = ops + 1
    /\ last'.op = "addReaction" /\ last'.n = ops' /\ last'.returned
    /\ last.op = "addReaction" /\ last.n = ops /\ last.returned
    /\ <<last'.conv, last'.isGroup, last'.id, last'.emoji, last'.user>>
          = <<last.conv, last.isGroup, last.id, last.emoji, last.user>>

\* Every reaction list of every message the client holds.
ReactionLists(d) ==
    UNION {UNION {{Reactions(h[i])[e] : e \in DOMAIN Reactions(h[i])} : i \in 1..Len(h)} :
              h \in Histories(d)}

\* C25: toggling a reaction twice (same conversation, message, emoji and user)
\* returns the message's reactions, as emoji -> set of users, to what they were
\* before the first call; no emoji is left with an empty list; and no user is
\* ever listed twice under an emoji.
C25_ReactionToggleInvolution ==
    /\ [][SecondToggle
          => ReactionSets(data'[StoreClient], last'.conv, last'.id, last'.isGroup)
                = last.before]_vars
    /\ [](\A users \in ReactionLists(data[StoreClient]) :
             /\ users # <<>>
             /\ \A i, j \in 1..Len(users) : users[i] = users[j] => i = j)

\* A reaction has just been toggled twice on a message that another user has
\* reacted to as well.
C25_Witness ==
    /\ last.op = "addReaction" /\ last.returned
    /\ last.start # Undefined
    /\ last.start[1] = ReactionSets(data[StoreClient], last.conv, last.id, last.isGroup)
    /\ last.emoji \in DOMAIN last.start[1]
    /\ last.user \notin last.start[1][last.emoji]

(***************************************************************************)
(* Unread counters and muting, called directly on one client.              *)
(***************************************************************************)
UnreadConversations == {getPrivateChatKey("U1", StoreClient), GroupId(1)}

\* The call, its conversation, and whether the conversation was muted.
UnreadCall(op, conversationId) ==
    [op |-> op, conv |-> conversationId,
     muted |-> conversationId \in data[StoreClient].mutedConversations, n |-> ops + 1]

UnreadIncrement(conversationId) ==
    StoreCall(incrementUnread(data[StoreClient], conversationId),
              UnreadCall("incrementUnread", conversationId))

UnreadToggleMuted(conversationId) ==
    StoreCall(toggleMuted(data[StoreClient], conversationId),
              UnreadCall("toggleMuted", conversationId))

UnreadMarkAsRead(conversationId) ==
    StoreCall(markAsRead(data[StoreClient], conversationId, clock),
              UnreadCall("markAsRead", conversationId))

NextUnread ==
    \/ \E c \in UnreadConversations : UnreadIncrement(c)
    \/ \E c \in UnreadConversations : UnreadToggleMuted(c)
    \/ \E c \in UnreadConversations : UnreadMarkAsRead(c)

SpecUnread == InitStore /\ [][NextUnread]_vars

\* C26: incrementUnread on a muted conversation leaves every unread counter
\* as it was, and a toggleMuted that unmutes a conversation leaves every
\* unread counter as it was.
C26_MutedNotCounted ==
    [][(/\ ops' = ops + 1
        /\ last'.n = ops'
        /\ last'.op \in {"incrementUnread", "toggleMuted"}
        /\ last'.muted)
       => /\ data'[StoreClient].unreadCounts = data[StoreClient].unreadCounts
          /\ last'.op = "toggleMuted"
                => last'.conv \notin data'[StoreClient].mutedConversations]_vars

\* incrementUnread has just been called on a muted conversation that had been
\* counted before it was muted.
C26_Witness ==
    /\ last.op = "incrementUnread"
    /\ last.muted
    /\ getUnreadCount(data[StoreClient], last.conv) > 0

(***************************************************************************)
(* A transport that may hand an event to its addressee more than once.     *)
(***************************************************************************)
\* The event is handled and stays in flight.
Redeliver(event) ==
    /\ ops < MaxOps
    /\ event \in BagToSet(socket)
    /\ Becomes(_onSocketMessage(World, event.to,
                                [type |-> event.type, payload |-> event.payload],
                                clock, ids.rec))
    /\ ids' = [ids EXCEPT !.rec = IF data'[event.to].interceptedMessages
                                       # data[event.to].interceptedMessages
                                    THEN @ + 1 ELSE @]
    /\ ops' = ops + 1
    /\ UNCHANGED <<gmActive, clock, twin, last, session>>

NextDup ==
    \/ \E me \in Talkers, r \in Talkers : SendMessage(me, r, Hello)
    \/ \E e \in BagToSet(socket) : Deliver(e)
    \/ \E e \in BagToSet(socket) : Redeliver(e)
    \/ \E me \in Users : \E t \in BagToSet(tasks[me]) : RunTask(me, t)

SpecDup == Init /\ [][NextDup]_vars

\* The number of messages a client holds in a conversation.
HeldIn(d, conversationId) ==
    IF conversationId \in DOMAIN d.privateChats THEN Len(d.privateChats[conversationId].history)
    ELSE IF conversationId \in DOMAIN d.groupChats
    THEN Len(d.groupChats[conversationId].history)
    ELSE 0

\* C27: on a player's client an unread counter rises only by the number of
\* messages the step appended to the conversation's history: an event whose
\* message deduplication absorbed does not raise it.
C27_UnreadCountsAppends ==
    [][\A u \in Players : \A k \in DOMAIN data'[u].unreadCounts :
          getUnreadCount(data'[u], k) > getUnreadCount(data[u], k)
          => getUnreadCount(data'[u], k) - getUnreadCount(data[u], k)
                = HeldIn(data'[u], k) - HeldIn(data[u], k)]_vars

(***************************************************************************)
(* Typing signals: U1 types in its conversation with U2, whose window for  *)
(* the conversation opens with the first message; windows are re-rendered  *)
(* as time passes.                                                         *)
(***************************************************************************)
TypingKey == getPrivateChatKey("U1", "U2")
TypingTimes == clock..(MaxTime + typingTimeout)

\* ChatWindow._onTyping / _clearTyping
TypingSignal(me, conversationId, isTyping) ==
    /\ ops < MaxOps
    /\ \E now \in TypingTimes :
          /\ Becomes(sendTypingIndicator(World, me, conversationId, isTyping, FALSE, gmActive))
          /\ clock' = now
    /\ ops' = ops + 1
    /\ UNCHANGED <<gmActive, ids, twin, last, session>>

\* A render of an open chat window; its getTypingUsers read is recorded.
ReadTyping(me, conversationId) ==
    /\ ops < MaxOps
    /\ conversationId \in ui[me]
    /\ \E now \in TypingTimes :
          /\ Becomes(RenderWindow(World, me, conversationId, now))
          /\ clock' = now
          /\ last' = [op |-> "getTypingUsers", by |-> me, conv |-> conversationId,
                      now |-> now,
                      returned |-> TypingNames(data[me], conversationId, now, me),
                      n |-> ops + 1]
    /\ ops' = ops + 1
    /\ UNCHANGED <<gmActive, ids, twin, session>>

NextTyping ==
    \/ \E isTyping \in BOOLEAN : TypingSignal("U1", TypingKey, isTyping)
    \/ ReadTyping("U2", TypingKey)
    \/ \E e \in BagToSet(socket) : Deliver(e)
    \/ \E me \in Users : \E t \in BagToSet(tasks[me]) : RunTask(me, t)

SpecTyping == InitEdit /\ [][NextTyping]_vars

\* C28: a getTypingUsers read does not report, and removes, every entry whose
\* last signal is older than the typing timeout.
C28_StaleTypingExpires ==
    [][(ops' = ops + 1 /\ last'.op = "getTypingUsers" /\ last'.n = ops')
       => \A u \in DOMAIN TypingIn(data[last'.by], last'.conv) :
             last'.now - TypingIn(data[last'.by], last'.conv)[u] > typingTimeout
             => /\ u \notin last'.returned
                /\ u \notin DOMAIN TypingIn(data'[last'.by], last'.conv)]_vars

\* Whether the client shows the user as typing in the conversation.
ShownTyping(d, conversationId, userId, now, me) ==
    userId \in TypingNames(d, conversationId, now, me)

\* C29: setTyping returns true exactly when the typing state of the user
\* changes: the Typing handler rewrites the typing line of the conversation's
\* open window when the signal changed whether the user is shown as typing,
\* and performs no rewrite when it did not (a repeated "typing", or "stopped"
\* for a user who was not typing).
C29_TypingChangeDetected ==
    [][\A e \in BagToSet(socket) :
          (Handles(e) /\ e.type = "typing")
          => LET me == e.to
                 conv == e.payload.conversationId
                 was == ShownTyping(data[me], conv, e.payload.userId, clock, me)
                 is == ShownTyping(data'[me], conv, e.payload.userId, clock', me)
             IN /\ is = e.payload.isTyping
                /\ data'[me].typingWrites # data[me].typingWrites => was # is
                /\ (was # is /\ conv \in ui[me])
                      => data'[me].typingWrites = data[me].typingWrites + 1]_vars

\* A second "typing" signal of a user already shown as typing has been handled
\* by a client whose window was open: the line was written once, by the first.
C29_Witness ==
    /\ TypingKey \in ui["U2"]
    /\ "U1" \in DOMAIN TypingIn(data["U2"], TypingKey)
    /\ data["U2"].typingWrites = 1
    /\ ops = 2
    /\ EventsTo(socket, "U2") = <<>>
    /\ last.op = "none"

(***************************************************************************)
(* Two players writing to each other, in both directions, with the game    *)
(* master observing.                                                       *)
(***************************************************************************)
KeyPair == {"U1", "U2"}

NextKey ==
    \/ \E me \in KeyPair, r \in KeyPair : SendMessage(me, r, Hello)
    \/ \E e \in BagToSet(socket) : Deliver(e)
    \/ \E me \in Users : \E t \in BagToSet(tasks[me]) : RunTask(me, t)

SpecKey == InitTwin /\ [][NextKey]_vars

\* The ids of the messages a client holds under a private key.
IdsUnder(d, k) == {d.privateChats[k].history[i].id : i \in 1..Len(d.privateChats[k].history)}

\* C30: the private key is symmetric: every private conversation a client
\* holds is stored under the key of its two users taken in either order, and
\* sender, recipient and observer hold a message under the same key.
C30_KeySymmetry ==
    /\ \A u \in Users : \A k \in DOMAIN data[u].privateChats :
          LET users == data[u].privateChats[k].users IN
          /\ k = getPrivateChatKey(users[1], users[2])
          /\ k = getPrivateChatKey(users[2], users[1])
    /\ \A u, v \in Users :
          \A k \in DOMAIN data[u].privateChats, j \in DOMAIN data[v].privateChats :
             IdsUnder(data[u], k) \cap IdsUnder(data[v], j) # {} => k = j

\* The two players and the observer each hold, under one key, a message of U1
\* to U2 and a message of U2 to U1.
C30_Witness ==
    \E k \in DOMAIN data["GM"].privateChats :
       /\ \A u \in {"U1", "U2", "GM"} :
             /\ k \in DOMAIN data[u].privateChats
             /\ IdsUnder(data[u], k) = IdsUnder(data["GM"], k)
       /\ {data["GM"].privateChats[k].history[i].senderId :
              i \in 1..Len(data["GM"].privateChats[k].history)} = {"U1", "U2"}

(***************************************************************************)
(* The interception log while the logged messages are edited and reacted   *)
(* to: the players and the game master write to each other, and edit,      *)
(* delete and react to the first message.                                  *)
(***************************************************************************)
AuditKeys == {getPrivateChatKey(a, b) : a, b \in Talkers}

NextAudit ==
    \/ \E me \in Talkers, r \in Talkers : SendMessage(me, r, Hello)
    \/ \E me \in Talkers, k \in AuditKeys, c \in Contents : EditMessage(me, k, 1, c, FALSE)
    \/ \E me \in Talkers, k \in AuditKeys : DeleteMessage(me, k, 1, FALSE)
    \/ \E me \in Talkers, k \in AuditKeys, e \in Emojis : ToggleReaction(me, k, 1, e, FALSE)
    \/ \E e \in BagToSet(socket) : Deliver(e)
    \/ \E me \in Users : \E t \in BagToSet(tasks[me]) : RunTask(me, t)

SpecAudit == InitTwin /\ [][NextAudit]_vars

\* What an interception record shows of its message.
Shows(rec) ==
    [id |-> rec.id, senderId |-> rec.senderId, content |-> rec.messageData.messageContent,
     reactions |-> Reactions(rec.messageData)]

\* C31: audit records are immutable: no step removes a record from the
\* observer's interceptedMessages or changes the content, sender or reactions
\* the record shows.
C31_AuditRecordsImmutable ==
    [][\A g \in GMs : \A i \in 1..Len(data[g].interceptedMessages) :
          /\ i <= Len(data'[g].interceptedMessages)
          /\ Shows(data'[g].interceptedMessages[i]) = Shows(data[g].interceptedMessages[i])]_vars

(***************************************************************************)
(* A sender deleting what it sent while the message is still in flight.    *)
(***************************************************************************)
RaceSender == "U1"
RaceRecipients == {"U2", "U3"}

NextRace ==
    \/ \E r \in RaceRecipients, c \in Contents : SendMessage(RaceSender, r, c)
    \/ \E r \in RaceRecipients, id \in 1..MaxOps :
          DeleteMessage(RaceSender, getPrivateChatKey(RaceSender, r), id, FALSE)
    \/ \E e \in BagToSet(socket) : Deliver(e)
    \/ \E me \in Users : \E t \in BagToSet(tasks[me]) : RunTask(me, t)

SpecRace == Init /\ [][NextRace]_vars

\* Every emitted event has been delivered and every handler has finished.
AllDelivered == socket = EmptyBag /\ \A u \in Users : tasks[u] = EmptyBag

\* C32: delete wins whatever the delivery order: once everything is delivered,
\* a message the sender has sent and no longer holds (it deleted it) is in the
\* recipient's history neither.
C32_DeleteWins ==
    AllDelivered
    => \A r \in RaceRecipients : \A id \in 1..(ids.msg - 1) :
          LET k == getPrivateChatKey(RaceSender, r) IN
          ~HeldId(data[RaceSender], k, FALSE, id) => ~HeldId(data[r], k, FALSE, id)

(***************************************************************************)
(* An observer mirroring a conversation between two players.               *)
(***************************************************************************)
MirrorPair == {"U1", "U2"}
MirrorKey == getPrivateChatKey("U1", "U2")

NextMirror ==
    \/ \E me, r \in MirrorPair : me # r /\ SendMessage(me, r, Hello)
    \/ \E me \in MirrorPair, c \in Contents : EditMessage(me, MirrorKey, 1, c, FALSE)
    \/ \E me \in MirrorPair : DeleteMessage(me, MirrorKey, 1, FALSE)
    \/ \E me \in MirrorPair, e \in Emojis : ToggleReaction(me, MirrorKey, 1, e, FALSE)
    \/ \E e \in BagToSet(socket) : Deliver(e)
    \/ \E me \in Users : \E t \in BagToSet(tasks[me]) : RunTask(me, t)

SpecMirror == InitTwin /\ [][NextMirror]_vars

\* What a client's copy of a private conversation shows, message by message.
Copy(d, chatKey) ==
    IF chatKey \in DOMAIN d.privateChats
    THEN [i \in 1..Len(d.privateChats[chatKey].history) |->
            LET m == d.privateChats[chatKey].history[i] IN
            [id |-> m.id, content |-> m.messageContent, reactions |-> Reactions(m)]]
    ELSE <<>>

\* C33: observer mirror convergence: once every emitted event is delivered,
\* the observer's copy of the players' conversation (message ids, contents,
\* reactions) equals both participants' copies.
C33_MirrorConverges ==
    AllDelivered
    => \A g \in GMs : \A p \in MirrorPair :
          Copy(data[g], MirrorKey) = Copy(data[p], MirrorKey)

(***************************************************************************)
(* Initialization: the `ready` hook and the lazy loader of main.js.        *)
(***************************************************************************)
\* DataManager.loadPrivateChats / loadGroupChats: the map is replaced by the
\* world setting, every history sanitized.
Loaded(chatsData) ==
    [k \in DOMAIN chatsData |-> [chatsData[k] EXCEPT !.history = _sanitizeHistory(@)]]
loadPrivateChats(d, chatsData) ==
    Detached([d EXCEPT !.privateChats = Loaded(chatsData)], DOMAIN d.privateChats)
loadGroupChats(d, groupsData) ==
    Detached([d EXCEPT !.groupChats = Loaded(groupsData)], DOMAIN d.groupChats)

\* The world settings `privateChats` and `groupChats`: what the GM client, the
\* only one that saves them, stored last.
WorldSettings ==
    LET g == CHOOSE g \in GMs : TRUE IN
    [privateChats |-> data[g].privateChats, groupChats |-> data[g].groupChats]
NoSaveInFlight == \A g \in GMs : tasks[g] = EmptyBag

\* RNKCyphur.initialize: the loads, then SocketHandler.initialize registers one
\* more listener.  The client-scoped settings are written at every change, so
\* loading them changes nothing.
RNK_initialize(d, settings) ==
    loadPrivateChats(loadGroupChats(d, settings.groupChats), settings.privateChats)

\* initializeCyphurIfNeeded, as called by game.RNKCyphur.open, openGMPanel and
\* the hub button.
OpenHub(me) ==
    /\ ops < MaxOps
    /\ IsActive(me, gmActive)
    /\ NoSaveInFlight
    /\ IF session[me]._cyphurInitialized
       THEN UNCHANGED <<data, session>>
       ELSE /\ session' = [session EXCEPT ![me] = [_cyphurInitialized |-> TRUE,
                                                   listeners |-> @.listeners + 1]]
            /\ data' = [data EXCEPT ![me] = Unshared(RNK_initialize(@, WorldSettings))]
    /\ ops' = ops + 1
    /\ UNCHANGED <<ui, tasks, socket, gmActive, clock, ids, twin, last>>

NextBoot ==
    \/ \E me, r \in MirrorPair : me # r /\ SendMessage(me, r, Hello)
    \/ \E me \in Users : OpenHub(me)
    \/ \E e \in BagToSet(socket) : Deliver(e)
    \/ \E me \in Users : \E t \in BagToSet(tasks[me]) : RunTask(me, t)

SpecBoot == InitTwin /\ [][NextBoot]_vars

\* C34: store confidentiality: privateChats of a non-privileged client holds no
\* conversation whose users list does not include that client's user.
C34_StoreConfidential ==
    \A p \in Players : \A k \in DOMAIN data[p].privateChats :
        \E i \in 1..Len(data[p].privateChats[k].users) :
            data[p].privateChats[k].users[i] = p

\* C39: single initialization: a client session never has more than one
\* transport listener registered, that is RNKCyphur.initialize has run at most
\* once.
C39_SingleInitialization == \A u \in Users : session[u].listeners <= 1

(***************************************************************************)
(* The game master changing and deleting a group that its members hold.    *)
(***************************************************************************)
RosterTicked == {{"U2", "GM"}, {"U1", "U3", "GM"}, {"U1", "U2", "U3", "GM"}}

NextRoster ==
    \/ \E ticked \in RosterTicked :
          EditGroup(TheGM, LifeGroup, [name |-> "crew", members |-> ticked])
    \/ DeleteGroup(TheGM, LifeGroup)
    \/ \E e \in BagToSet(socket) : Deliver(e)
    \/ \E me \in Users : \E t \in BagToSet(tasks[me]) : RunTask(me, t)

SpecRoster == InitLife /\ [][NextRoster]_vars

\* C35: a group membership update reaches added members: once every event is
\* delivered, every user the game master's record of the group lists as member
\* holds a record of the group that lists that user.
C35_AddedMemberHoldsGroup ==
    (AllDelivered /\ LifeGroup \in DOMAIN data[TheGM].groupChats)
    => \A y \in data[TheGM].groupChats[LifeGroup].members :
          /\ LifeGroup \in DOMAIN data[y].groupChats
          /\ y \in data[y].groupChats[LifeGroup].members

\* C36: group membership agreement: once every event is delivered, every client
\* that holds a record of the group holds the game master's member list, and no
\* client holds a record of a group the game master has deleted.
C36_MembershipAgreement ==
    AllDelivered
    => \A u \in Users :
          LifeGroup \in DOMAIN data[u].groupChats
          => /\ LifeGroup \in DOMAIN data[TheGM].groupChats
             /\ data[u].groupChats[LifeGroup].members
                   = data[TheGM].groupChats[LifeGroup].members

(***************************************************************************)
(* Reacting to a message that is still in flight.  The reaction picker is   *)
(* part of a rendered message, so the caller holds the message.            *)
(***************************************************************************)
NextReact ==
    \/ \E r \in RaceRecipients, c \in Contents : SendMessage(RaceSender, r, c)
    \/ \E r \in RaceRecipients, id \in 1..MaxOps, e \in Emojis :
          /\ HeldId(data[RaceSender], getPrivateChatKey(RaceSender, r), FALSE, id)
          /\ ToggleReaction(RaceSender, getPrivateChatKey(RaceSender, r), id, e, FALSE)
    \/ \E e \in BagToSet(socket) : Deliver(e)
    \/ \E me \in Users : \E t \in BagToSet(tasks[me]) : RunTask(me, t)

SpecReact == Init /\ [][NextReact]_vars

\* C37: reaction convergence: once every event is delivered, a recipient that
\* holds a message of the sender shows the same reactions on it as the sender's
\* client.
C37_ReactionsConverge ==
    AllDelivered
    => \A r \in RaceRecipients : \A id \in 1..(ids.msg - 1) :
          LET k == getPrivateChatKey(RaceSender, r) IN
          (HeldId(data[RaceSender], k, FALSE, id) /\ HeldId(data[r], k, FALSE, id))
          => Reactions(HeldMessage(data[r], k, FALSE, id))
                = Reactions(HeldMessage(data[RaceSender], k, FALSE, id))

\* C38: the interception log is idempotent under duplicate delivery: the
\* observer's interceptedMessages holds at most one record per original message id.
C38_OneRecordPerMessage ==
    \A g \in GMs :
        LET log == data[g].interceptedMessages IN
        \A i, j \in 1..Len(log) : log[i].messageData.id = log[j].messageData.id => i = j

(***************************************************************************)
(* Snapshots the game master sends while messages are still in flight.     *)
(***************************************************************************)
SendSyncToUser(userId) ==
    /\ ops < MaxOps
    /\ gmActive
    /\ Becomes(sendSyncToUser(World, TheGM, userId, gmActive))
    /\ UserStep(clock)
    /\ UNCHANGED ids

NextResync ==
    \/ \E me, r \in MirrorPair : me # r /\ SendMessage(me, r, Hello)
    \/ \E u \in Players : SendSyncToUser(u)
    \/ \E e \in BagToSet(socket) : Deliver(e)
    \/ \E me \in Users : \E t \in BagToSet(tasks[me]) : RunTask(me, t)

SpecResync == InitEdit /\ [][NextResync]_vars

\* The messages a client holds: conversation and message id.
HeldIds(d) ==
    UNION {{<<k, d.privateChats[k].history[i].id>> :
               i \in 1..Len(d.privateChats[k].history)} : k \in DOMAIN d.privateChats}
    \cup UNION {{<<g, d.groupChats[g].history[i].id>> :
                    i \in 1..Len(d.groupChats[g].history)} : g \in DOMAIN d.groupChats}

\* C40: sync merges rather than replaces: when a client applies a PrivateSync or
\* GroupSync snapshot, every message its histories held before the step is still
\* held after it.
C40_SyncMerges ==
    [][\A e \in BagToSet(socket) :
          (Handles(e) /\ e.type \in {"privateSync", "groupSync"})
          => HeldIds(data[e.to]) \subseteq HeldIds(data'[e.to])]_vars
====
